---- MODULE Spec2Model ----
(***************************************************************************)
(* Force field terms of mstools (mstools/forcefield/ffterm.py).            *)
(*                                                                         *)
(* A Python str is modelled as the sequence of its code points, so that    *)
(* the comparisons made by sorted() and min() are the code point by code   *)
(* point comparisons Python makes, and a term's name is the concatenation  *)
(* the '%s,%s' format produces.  A term object is a record of its          *)
(* attributes, cls being the name of its class.  Numeric parameters are    *)
(* integers (a fixed-point reading of the floats of the source).           *)
(***************************************************************************)
EXTENDS Integers, Sequences, FiniteSets, TLC

VARIABLES kwargs,   \* arguments of the first constructor call, or NoArgs
          term,     \* the object the first call produced, or NoTerm
          error,    \* the exception class the first call raised, or NoError
          kwargs2,  \* arguments of the second constructor call, or NoArgs
          term2,    \* the object the second call produced, or NoTerm
          error2,   \* the exception class the second call raised, or NoError
          class_map, \* FFTermFactory._class_map : class name -> class
          call,     \* the last call of a method or of the factory, with its
                    \* outcome, or NoCall
          zfp,      \* the element of a ZFP file in flight : the name of a
                    \* class and a dict of attributes, or NoElement
          registrations \* number of FFTermFactory.register calls made

vars == <<kwargs, term, error, kwargs2, term2, error2, class_map, call, zfp,
          registrations>>

----------------------------------------------------------------------------
(* Bounds of the model *)

\* number of atom type strings of TypePool the callers draw from
NumTypes == 5
\* numeric arguments range over -MaxValue .. MaxValue
MaxValue == 1

----------------------------------------------------------------------------
(* Values *)

None == "None"
NoArgs == [cls |-> "NoArgs"]
NoTerm == [cls |-> "NoTerm"]
NoError == "NoError"
NoCall == [method |-> "NoCall"]
NoElement == [name |-> "NoElement", d |-> << >>, source |-> "NoElement"]

\* '*'
Wildcard == <<42>>
\* ','
Comma == <<44>>

\* "*", "c_4", "h_1", "$", "c", "*c", "", "h"
TypePool ==
    << <<42>>, <<99, 95, 52>>, <<104, 95, 49>>, <<36>>, <<99>>,
       <<42, 99>>, << >>, <<104>> >>

Min2(a, b) == IF a < b THEN a ELSE b

Types == {TypePool[i] : i \in 1..Min2(NumTypes, Len(TypePool))}

Values == (0 - MaxValue)..MaxValue

----------------------------------------------------------------------------
(* Python built-ins used by the constructors *)

\* str.__lt__ : comparison by code points, a proper prefix being smaller
RECURSIVE StrLess(_, _)
StrLess(s, t) ==
    IF t = << >> THEN FALSE
    ELSE IF s = << >> THEN TRUE
    ELSE IF Head(s) # Head(t) THEN Head(s) < Head(t)
    ELSE StrLess(Tail(s), Tail(t))

\* tuple.__lt__ / list.__lt__ on sequences of str: the first pair of
\* unequal elements decides, a proper prefix being smaller
RECURSIVE TupleLess(_, _)
TupleLess(x, y) ==
    IF y = << >> THEN FALSE
    ELSE IF x = << >> THEN TRUE
    ELSE IF Head(x) # Head(y) THEN StrLess(Head(x), Head(y))
    ELSE TupleLess(Tail(x), Tail(y))

\* insertion of e into the sorted list s after every element not greater
\* than it (sorted() is stable)
RECURSIVE Insert(_, _)
Insert(e, s) ==
    IF s = << >> THEN <<e>>
    ELSE IF StrLess(e, Head(s)) THEN <<e>> \o s
    ELSE <<Head(s)>> \o Insert(e, Tail(s))

\* sorted(list of str)
RECURSIVE sorted(_)
sorted(s) ==
    IF s = << >> THEN << >>
    ELSE Insert(s[Len(s)], sorted(SubSeq(s, 1, Len(s) - 1)))

\* min([x, y]) on tuples of str: the first of the smallest
min(x, y) == IF TupleLess(y, x) THEN y ELSE x

\* list.count
RECURSIVE count(_, _)
count(s, e) ==
    IF s = << >> THEN 0
    ELSE (IF Head(s) = e THEN 1 ELSE 0) + count(Tail(s), e)

\* '%s,%s,...' % tuple
RECURSIVE Join(_)
Join(s) ==
    IF s = << >> THEN << >>
    ELSE IF Len(s) = 1 THEN Head(s)
    ELSE Head(s) \o Comma \o Join(Tail(s))

----------------------------------------------------------------------------
(* Objects and the outcome of a constructor call *)

\* self.attr = value, for each field of attrs
SetAttrs(self, attrs) == attrs @@ self

Return(self) == [raised |-> NoError, obj |-> self]
Raise(exc) == [raised |-> exc, obj |-> NoTerm]

\* FFTerm.__init__
FFTerm_init(self) == SetAttrs(self, [version |-> None, comments |-> << >>])

----------------------------------------------------------------------------
(* ChargeIncrementTerm *)

\* faulty variant: the value is kept when the pair is swapped
ChargeIncrementValue_Kept(type1, at1, value) == value

\* faulty variant: the condition of the negation is inverted
ChargeIncrementValue_Inverted(type1, at1, value) ==
    IF at1 # type1 THEN value ELSE 0 - value

\* value if at1 == type1 else -value
ChargeIncrementValue(type1, at1, value) ==
    IF at1 = type1 THEN value ELSE 0 - value

\* faulty variant: a self-increment is never refused
ChargeIncrementNonZero_Never(type1, type2, value) == FALSE

\* the guard of the raise of ChargeIncrementNonZeroError
ChargeIncrementNonZero(type1, type2, value) == type1 = type2 /\ value # 0

ChargeIncrementTerm_init(self, type1, type2, value) ==
    LET s0 == FFTerm_init(self)
        at == sorted(<<type1, type2>>)
    IN  IF ChargeIncrementNonZero(type1, type2, value)
        THEN Raise("ChargeIncrementNonZeroError")
        ELSE Return(SetAttrs(s0, [type1 |-> at[1], type2 |-> at[2],
                                  value |-> ChargeIncrementValue(type1, at[1], value)]))

----------------------------------------------------------------------------
(* Pairwise terms *)

\* faulty variant: the pair is stored as given
SortedPair_AsGiven(type1, type2) == <<type1, type2>>

\* at1, at2 = sorted([type1, type2])
SortedPair(type1, type2) == sorted(<<type1, type2>>)

VdwTerm_init(self, type1, type2) ==
    LET s0 == FFTerm_init(self)
        at == SortedPair(type1, type2)
    IN  Return(SetAttrs(s0, [type1 |-> at[1], type2 |-> at[2]]))

BondTerm_init(self, type1, type2, length, fixed) ==
    LET s0 == FFTerm_init(self)
        at == SortedPair(type1, type2)
    IN  Return(SetAttrs(s0, [type1 |-> at[1], type2 |-> at[2],
                             length |-> length, fixed |-> fixed]))

LJ126Term_init(self, type1, type2, epsilon, sigma) ==
    LET r == VdwTerm_init(self, type1, type2)
    IN  Return(SetAttrs(r.obj, [epsilon |-> epsilon, sigma |-> sigma]))

MieTerm_init(self, type1, type2, epsilon, sigma, repulsion, attraction) ==
    LET r == VdwTerm_init(self, type1, type2)
    IN  Return(SetAttrs(r.obj, [epsilon |-> epsilon, sigma |-> sigma,
                                repulsion |-> repulsion, attraction |-> attraction]))

HarmonicBondTerm_init(self, type1, type2, length, k, fixed) ==
    LET r == BondTerm_init(self, type1, type2, length, fixed)
    IN  Return(SetAttrs(r.obj, [k |-> k]))

----------------------------------------------------------------------------
(* Angle terms *)

\* faulty variant: the sides are stored as given
SortedSides_AsGiven(type1, type3) == <<type1, type3>>

\* at1, at3 = sorted([type1, type3])
SortedSides(type1, type3) == sorted(<<type1, type3>>)

AngleTerm_init(self, type1, type2, type3, theta, fixed) ==
    LET s0 == FFTerm_init(self)
        at == SortedSides(type1, type3)
    IN  Return(SetAttrs(s0, [type1 |-> at[1], type2 |-> type2, type3 |-> at[2],
                             theta |-> theta, fixed |-> fixed]))

HarmonicAngleTerm_init(self, type1, type2, type3, theta, k, fixed) ==
    LET r == AngleTerm_init(self, type1, type2, type3, theta, fixed)
    IN  Return(SetAttrs(r.obj, [k |-> k]))

SDKAngleTerm_init(self, type1, type2, type3, theta, k) ==
    LET r == AngleTerm_init(self, type1, type2, type3, theta, FALSE)
    IN  Return(SetAttrs(r.obj, [k |-> k]))

----------------------------------------------------------------------------
(* Dihedral terms *)

\* faulty variant: only the first center is looked at
DihedralCenterWildcard_FirstOnly(type2, type3) == type2 = Wildcard

\* '*' in [type2, type3]
DihedralCenterWildcard(type2, type3) == Wildcard \in {type2, type3}

\* faulty variant: the smaller sequence is chosen whatever the wildcards
DihedralOrder_AlwaysMin(type1, type2, type3, type4) ==
    min(<<type1, type2, type3, type4>>, <<type4, type3, type2, type1>>)

\* faulty variant: without exactly one wildcard end, the greater sequence
\* is chosen
DihedralOrder_Max(type1, type2, type3, type4) ==
    IF count(<<type1, type4>>, Wildcard) \in {0, 2}
    THEN IF TupleLess(<<type1, type2, type3, type4>>, <<type4, type3, type2, type1>>)
         THEN <<type4, type3, type2, type1>>
         ELSE <<type1, type2, type3, type4>>
    ELSE IF type1 = Wildcard
    THEN <<type4, type3, type2, type1>>
    ELSE <<type1, type2, type3, type4>>

\* faulty variant: without exactly one wildcard end, the two ends alone
\* decide the order
DihedralOrder_EndsOnly(type1, type2, type3, type4) ==
    IF count(<<type1, type4>>, Wildcard) \in {0, 2}
    THEN IF StrLess(type4, type1)
         THEN <<type4, type3, type2, type1>>
         ELSE <<type1, type2, type3, type4>>
    ELSE IF type1 = Wildcard
    THEN <<type4, type3, type2, type1>>
    ELSE <<type1, type2, type3, type4>>

\* the sequence of the four types the constructor stores
DihedralOrder(type1, type2, type3, type4) ==
    IF count(<<type1, type4>>, Wildcard) \in {0, 2}
    THEN min(<<type1, type2, type3, type4>>, <<type4, type3, type2, type1>>)
    ELSE IF type1 = Wildcard
    THEN <<type4, type3, type2, type1>>
    ELSE <<type1, type2, type3, type4>>

DihedralTerm_init(self, type1, type2, type3, type4) ==
    LET s0 == FFTerm_init(self)
        at == DihedralOrder(type1, type2, type3, type4)
    IN  IF DihedralCenterWildcard(type2, type3)
        THEN Raise("Exception")
        ELSE Return(SetAttrs(s0, [type1 |-> at[1], type2 |-> at[2],
                                  type3 |-> at[3], type4 |-> at[4]]))

PeriodicDihedralTerm_init(self, type1, type2, type3, type4) ==
    LET r == DihedralTerm_init(self, type1, type2, type3, type4)
    IN  IF r.raised # NoError THEN r
        ELSE Return(SetAttrs(r.obj, [parameters |-> << >>]))

----------------------------------------------------------------------------
(* Improper terms *)

\* type1 == '*'
ImproperCenterWildcard(type1) == type1 = Wildcard

\* [t for t in (type2, type3, type4) if t != '*']
NonWildcard(sides) == SelectSeq(sides, LAMBDA t : t # Wildcard)

\* ['*'] * n
Wildcards(n) == [i \in 1..n |-> Wildcard]

\* faulty variant: the three sides are sorted, wildcards included
ImproperSides_SortAll(type2, type3, type4) == sorted(<<type2, type3, type4>>)

\* list(sorted(non_wildcard)) + ['*'] * (3 - len(non_wildcard))
ImproperSides(type2, type3, type4) ==
    LET non_wildcard == NonWildcard(<<type2, type3, type4>>)
    IN  sorted(non_wildcard) \o Wildcards(3 - Len(non_wildcard))

ImproperTerm_init(self, type1, type2, type3, type4) ==
    LET s0 == FFTerm_init(self)
        at == ImproperSides(type2, type3, type4)
    IN  IF ImproperCenterWildcard(type1)
        THEN Raise("Exception")
        ELSE Return(SetAttrs(s0, [type1 |-> type1, type2 |-> at[1],
                                  type3 |-> at[2], type4 |-> at[3]]))

OplsImproperTerm_init(self, type1, type2, type3, type4, k) ==
    LET r == ImproperTerm_init(self, type1, type2, type3, type4)
    IN  IF r.raised # NoError THEN r
        ELSE Return(SetAttrs(r.obj, [k |-> k]))

HarmonicImproperTerm_init(self, type1, type2, type3, type4, phi, k) ==
    LET r == ImproperTerm_init(self, type1, type2, type3, type4)
    IN  IF r.raised # NoError THEN r
        ELSE Return(SetAttrs(r.obj, [phi |-> phi, k |-> k]))

----------------------------------------------------------------------------
(* Polarizable terms *)

PolarizableTerm_init(self, type) ==
    Return(SetAttrs(FFTerm_init(self), [type |-> type]))

DrudeTerm_init(self, type, alpha, thole, k, mass, merge_alpha_H) ==
    LET r == PolarizableTerm_init(self, type)
    IN  Return(SetAttrs(r.obj, [alpha |-> alpha, thole |-> thole, k |-> k,
                                mass |-> mass, merge_alpha_H |-> merge_alpha_H]))

----------------------------------------------------------------------------
(* AtomType *)

EqtNames ==
    {"eqt_vdw", "eqt_q_inc", "eqt_bond", "eqt_ang_c", "eqt_ang_s",
     "eqt_dih_c", "eqt_dih_s", "eqt_imp_c", "eqt_imp_s", "eqt_polar"}

\* eqt_x or name : eqt is the function of the eqt_* keywords the caller
\* gave, an absent keyword being the default None; None and '' are falsy
EqtOrName(eqt, key, name) ==
    IF key \in DOMAIN eqt /\ eqt[key] # << >> THEN eqt[key] ELSE name

\* the attribute _name is the field name of the record
AtomType_init(self, name, mass, charge, eqt) ==
    LET s0 == FFTerm_init(self)
    IN  Return(SetAttrs(s0, [name |-> name, mass |-> mass, charge |-> charge]
                            @@ [key \in EqtNames |-> EqtOrName(eqt, key, name)]))

----------------------------------------------------------------------------
(* Classes, the name property and the call of a class *)

PairClasses == {"VdwTerm", "BondTerm", "LJ126Term", "MieTerm", "HarmonicBondTerm"}
AngleClasses == {"AngleTerm", "HarmonicAngleTerm", "SDKAngleTerm"}
DihedralClasses == {"DihedralTerm", "PeriodicDihedralTerm"}
ImproperClasses == {"ImproperTerm", "OplsImproperTerm", "HarmonicImproperTerm"}
PolarizableClasses == {"PolarizableTerm", "DrudeTerm"}

AtomType_name(self) == self.name
ChargeIncrementTerm_name(self) == Join(<<self.type1, self.type2>>)
VdwTerm_name(self) == Join(<<self.type1, self.type2>>)
BondTerm_name(self) == Join(<<self.type1, self.type2>>)
AngleTerm_name(self) == Join(<<self.type1, self.type2, self.type3>>)
DihedralTerm_name(self) == Join(<<self.type1, self.type2, self.type3, self.type4>>)
ImproperTerm_name(self) == Join(<<self.type1, self.type2, self.type3, self.type4>>)
PolarizableTerm_name(self) == self.type

\* self.name, resolved through the class of self
name(self) ==
    CASE self.cls = "AtomType" -> AtomType_name(self)
      [] self.cls = "ChargeIncrementTerm" -> ChargeIncrementTerm_name(self)
      [] self.cls \in {"VdwTerm", "LJ126Term", "MieTerm"} -> VdwTerm_name(self)
      [] self.cls \in {"BondTerm", "HarmonicBondTerm"} -> BondTerm_name(self)
      [] self.cls \in AngleClasses -> AngleTerm_name(self)
      [] self.cls \in DihedralClasses -> DihedralTerm_name(self)
      [] self.cls \in ImproperClasses -> ImproperTerm_name(self)
      [] self.cls \in PolarizableClasses -> PolarizableTerm_name(self)

\* cls(**kw): a new object of class kw.cls, initialised by its __init__
New(kw) ==
    LET self == [cls |-> kw.cls]
    IN  CASE kw.cls = "AtomType" ->
               AtomType_init(self, kw.name, kw.mass, kw.charge,
                             [key \in DOMAIN kw \cap EqtNames |-> kw[key]])
          [] kw.cls = "ChargeIncrementTerm" ->
               ChargeIncrementTerm_init(self, kw.type1, kw.type2, kw.value)
          [] kw.cls = "VdwTerm" -> VdwTerm_init(self, kw.type1, kw.type2)
          [] kw.cls = "BondTerm" ->
               BondTerm_init(self, kw.type1, kw.type2, kw.length, kw.fixed)
          [] kw.cls = "LJ126Term" ->
               LJ126Term_init(self, kw.type1, kw.type2, kw.epsilon, kw.sigma)
          [] kw.cls = "MieTerm" ->
               MieTerm_init(self, kw.type1, kw.type2, kw.epsilon, kw.sigma,
                            kw.repulsion, kw.attraction)
          [] kw.cls = "HarmonicBondTerm" ->
               HarmonicBondTerm_init(self, kw.type1, kw.type2, kw.length, kw.k, kw.fixed)
          [] kw.cls = "AngleTerm" ->
               AngleTerm_init(self, kw.type1, kw.type2, kw.type3, kw.theta, kw.fixed)
          [] kw.cls = "HarmonicAngleTerm" ->
               HarmonicAngleTerm_init(self, kw.type1, kw.type2, kw.type3,
                                      kw.theta, kw.k, kw.fixed)
          [] kw.cls = "SDKAngleTerm" ->
               SDKAngleTerm_init(self, kw.type1, kw.type2, kw.type3, kw.theta, kw.k)
          [] kw.cls = "DihedralTerm" ->
               DihedralTerm_init(self, kw.type1, kw.type2, kw.type3, kw.type4)
          [] kw.cls = "PeriodicDihedralTerm" ->
               PeriodicDihedralTerm_init(self, kw.type1, kw.type2, kw.type3, kw.type4)
          [] kw.cls = "ImproperTerm" ->
               ImproperTerm_init(self, kw.type1, kw.type2, kw.type3, kw.type4)
          [] kw.cls = "OplsImproperTerm" ->
               OplsImproperTerm_init(self, kw.type1, kw.type2, kw.type3, kw.type4, kw.k)
          [] kw.cls = "HarmonicImproperTerm" ->
               HarmonicImproperTerm_init(self, kw.type1, kw.type2, kw.type3, kw.type4,
                                         kw.phi, kw.k)
          [] kw.cls = "PolarizableTerm" -> PolarizableTerm_init(self, kw.type)
          [] kw.cls = "DrudeTerm" ->
               DrudeTerm_init(self, kw.type, kw.alpha, kw.thole, kw.k, kw.mass,
                              kw.merge_alpha_H)

----------------------------------------------------------------------------
(* The callers' arguments *)

\* the sets of eqt_* keywords a caller of AtomType gives
EqtArgSets == {{}, {"eqt_vdw"}, {"eqt_bond", "eqt_ang_c"}, EqtNames}

\* the attributes of an object that are not arguments of its constructor
NotArgs == {"version", "comments", "parameters"}

\* the arguments that pass the constructor the stored attributes of self
StoredArgs(self) == [a \in DOMAIN self \ NotArgs |-> self[a]]

\* the types of kw in the order of the constructor's parameters
TypeArgs(kw) ==
    CASE kw.cls \in PairClasses \cup {"ChargeIncrementTerm"} -> <<kw.type1, kw.type2>>
      [] kw.cls \in AngleClasses -> <<kw.type1, kw.type2, kw.type3>>
      [] kw.cls \in DihedralClasses \cup ImproperClasses ->
           <<kw.type1, kw.type2, kw.type3, kw.type4>>
      [] kw.cls \in PolarizableClasses -> <<kw.type>>
      [] kw.cls = "AtomType" -> <<kw.name>>

Reverse(s) == [i \in 1..Len(s) |-> s[Len(s) + 1 - i]]

\* kw with its types replaced by the sequence ts
WithTypes(kw, ts) ==
    CASE Len(ts) = 2 -> [kw EXCEPT !.type1 = ts[1], !.type2 = ts[2]]
      [] Len(ts) = 3 -> [kw EXCEPT !.type1 = ts[1], !.type2 = ts[2], !.type3 = ts[3]]
      [] Len(ts) = 4 -> [kw EXCEPT !.type1 = ts[1], !.type2 = ts[2], !.type3 = ts[3],
                                   !.type4 = ts[4]]

\* the same participants given in another order that denotes the same
\* interaction: the pair swapped, the sides of the angle swapped, the
\* dihedral reversed, the sides of the improper permuted
Reorderings(kw) ==
    LET ts == TypeArgs(kw)
    IN  CASE kw.cls \in PairClasses \cup {"ChargeIncrementTerm"} \cup AngleClasses
                    \cup DihedralClasses ->
               {WithTypes(kw, Reverse(ts))}
          [] kw.cls \in ImproperClasses ->
               {WithTypes(kw, <<ts[1], ts[p[1] + 1], ts[p[2] + 1], ts[p[3] + 1]>>) :
                    p \in {q \in [1..3 -> 1..3] : {q[1], q[2], q[3]} = 1..3}}
          [] OTHER -> {}

----------------------------------------------------------------------------
(* FFTermFactory: the registry of the classes *)

\* the class statement of the module that defines the class called n
ModuleClass(n) == [name |-> n, module |-> "mstools.forcefield.ffterm"]

\* the names of the classes the module registers, in the order of its
\* FFTermFactory.register(...) statements
RegisteredNames ==
    <<"AtomType", "ChargeIncrementTerm", "LJ126Term", "MieTerm", "HarmonicBondTerm",
      "HarmonicAngleTerm", "SDKAngleTerm", "PeriodicDihedralTerm", "OplsImproperTerm",
      "HarmonicImproperTerm", "DrudeTerm">>

\* the classes of the module that it never registers
BaseNames ==
    {"VdwTerm", "BondTerm", "AngleTerm", "DihedralTerm", "ImproperTerm",
     "PolarizableTerm"}

\* _class_map = {}
EmptyClassMap == [n \in {} |-> ModuleClass(n)]

\* FFTermFactory.register : _class_map[klass.__name__] = klass
register(map, klass) == (klass.name :> klass) @@ map

\* _class_map once the first n register statements of the module have run
RECURSIVE ClassMapAfter(_)
ClassMapAfter(n) ==
    IF n = 0 THEN EmptyClassMap
    ELSE register(ClassMapAfter(n - 1), ModuleClass(RegisteredNames[n]))

\* faulty variant: the base classes are registered as well
LoadedClassMap_BasesRegistered ==
    [n \in {RegisteredNames[i] : i \in 1..Len(RegisteredNames)} \cup BaseNames |->
        ModuleClass(n)]

\* _class_map once the module is loaded
LoadedClassMap == ClassMapAfter(Len(RegisteredNames))

----------------------------------------------------------------------------
(* The state machine: a caller constructs a term, then constructs a second *)
(* term of the same class from the same participants in another order, or  *)
(* from the attributes the first term stores.                              *)

Init ==
    /\ kwargs = NoArgs /\ term = NoTerm /\ error = NoError
    /\ kwargs2 = NoArgs /\ term2 = NoTerm /\ error2 = NoError
    /\ class_map = LoadedClassMap
    /\ registrations = Len(RegisteredNames)
    /\ call = NoCall
    /\ zfp = NoElement

\* term = cls(**kw)
Call(kw) ==
    LET r == New(kw)
    IN  /\ kwargs' = kw
        /\ term' = r.obj
        /\ error' = r.raised
        /\ UNCHANGED <<kwargs2, term2, error2, class_map, call, zfp, registrations>>

\* term2 = cls(**kw)
Call2(kw) ==
    LET r == New(kw)
    IN  /\ kwargs2' = kw
        /\ term2' = r.obj
        /\ error2' = r.raised
        /\ UNCHANGED <<kwargs, term, error, class_map, call, zfp, registrations>>

ConstructAtomType ==
    /\ kwargs = NoArgs
    /\ \E n \in Types, mass \in Values, charge \in Values, given \in EqtArgSets, e \in Types :
           Call([cls |-> "AtomType", name |-> n, mass |-> mass, charge |-> charge]
                @@ [key \in given |-> e])

ConstructChargeIncrementTerm ==
    /\ kwargs = NoArgs
    /\ \E type1 \in Types, type2 \in Types, value \in Values :
           Call([cls |-> "ChargeIncrementTerm", type1 |-> type1, type2 |-> type2,
                 value |-> value])

ConstructVdwTerm ==
    /\ kwargs = NoArgs
    /\ \E type1 \in Types, type2 \in Types :
           Call([cls |-> "VdwTerm", type1 |-> type1, type2 |-> type2])

ConstructBondTerm ==
    /\ kwargs = NoArgs
    /\ \E type1 \in Types, type2 \in Types, length \in Values, fixed \in BOOLEAN :
           Call([cls |-> "BondTerm", type1 |-> type1, type2 |-> type2,
                 length |-> length, fixed |-> fixed])

ConstructLJ126Term ==
    /\ kwargs = NoArgs
    /\ \E type1 \in Types, type2 \in Types, epsilon \in Values, sigma \in Values :
           Call([cls |-> "LJ126Term", type1 |-> type1, type2 |-> type2,
                 epsilon |-> epsilon, sigma |-> sigma])

ConstructMieTerm ==
    /\ kwargs = NoArgs
    /\ \E type1 \in Types, type2 \in Types, epsilon \in Values, sigma \in Values,
          repulsion \in Values, attraction \in Values :
           Call([cls |-> "MieTerm", type1 |-> type1, type2 |-> type2,
                 epsilon |-> epsilon, sigma |-> sigma,
                 repulsion |-> repulsion, attraction |-> attraction])

ConstructHarmonicBondTerm ==
    /\ kwargs = NoArgs
    /\ \E type1 \in Types, type2 \in Types, length \in Values, k \in Values,
          fixed \in BOOLEAN :
           Call([cls |-> "HarmonicBondTerm", type1 |-> type1, type2 |-> type2,
                 length |-> length, k |-> k, fixed |-> fixed])

ConstructAngleTerm ==
    /\ kwargs = NoArgs
    /\ \E type1 \in Types, type2 \in Types, type3 \in Types, theta \in Values,
          fixed \in BOOLEAN :
           Call([cls |-> "AngleTerm", type1 |-> type1, type2 |-> type2, type3 |-> type3,
                 theta |-> theta, fixed |-> fixed])

ConstructHarmonicAngleTerm ==
    /\ kwargs = NoArgs
    /\ \E type1 \in Types, type2 \in Types, type3 \in Types, theta \in Values,
          k \in Values, fixed \in BOOLEAN :
           Call([cls |-> "HarmonicAngleTerm", type1 |-> type1, type2 |-> type2,
                 type3 |-> type3, theta |-> theta, k |-> k, fixed |-> fixed])

ConstructSDKAngleTerm ==
    /\ kwargs = NoArgs
    /\ \E type1 \in Types, type2 \in Types, type3 \in Types, theta \in Values,
          k \in Values :
           Call([cls |-> "SDKAngleTerm", type1 |-> type1, type2 |-> type2,
                 type3 |-> type3, theta |-> theta, k |-> k])

ConstructDihedralTerm ==
    /\ kwargs = NoArgs
    /\ \E type1 \in Types, type2 \in Types, type3 \in Types, type4 \in Types :
           Call([cls |-> "DihedralTerm", type1 |-> type1, type2 |-> type2,
                 type3 |-> type3, type4 |-> type4])

ConstructPeriodicDihedralTerm ==
    /\ kwargs = NoArgs
    /\ \E type1 \in Types, type2 \in Types, type3 \in Types, type4 \in Types :
           Call([cls |-> "PeriodicDihedralTerm", type1 |-> type1, type2 |-> type2,
                 type3 |-> type3, type4 |-> type4])

ConstructImproperTerm ==
    /\ kwargs = NoArgs
    /\ \E type1 \in Types, type2 \in Types, type3 \in Types, type4 \in Types :
           Call([cls |-> "ImproperTerm", type1 |-> type1, type2 |-> type2,
                 type3 |-> type3, type4 |-> type4])

ConstructOplsImproperTerm ==
    /\ kwargs = NoArgs
    /\ \E type1 \in Types, type2 \in Types, type3 \in Types, type4 \in Types,
          k \in Values :
           Call([cls |-> "OplsImproperTerm", type1 |-> type1, type2 |-> type2,
                 type3 |-> type3, type4 |-> type4, k |-> k])

ConstructHarmonicImproperTerm ==
    /\ kwargs = NoArgs
    /\ \E type1 \in Types, type2 \in Types, type3 \in Types, type4 \in Types,
          phi \in Values, k \in Values :
           Call([cls |-> "HarmonicImproperTerm", type1 |-> type1, type2 |-> type2,
                 type3 |-> type3, type4 |-> type4, phi |-> phi, k |-> k])

ConstructPolarizableTerm ==
    /\ kwargs = NoArgs
    /\ \E type \in Types : Call([cls |-> "PolarizableTerm", type |-> type])

ConstructDrudeTerm ==
    /\ kwargs = NoArgs
    /\ \E type \in Types, alpha \in Values, thole \in Values, k \in Values,
          mass \in Values, merge_alpha_H \in Values :
           Call([cls |-> "DrudeTerm", type |-> type, alpha |-> alpha, thole |-> thole,
                 k |-> k, mass |-> mass, merge_alpha_H |-> merge_alpha_H])

\* the second call gives the participants of the first in another order
ConstructReordered ==
    /\ kwargs # NoArgs
    /\ kwargs2 = NoArgs
    /\ \E kw \in Reorderings(kwargs) : Call2(kw)

\* the second call gives the attributes the first term stores
ConstructFromStored ==
    /\ term # NoTerm
    /\ kwargs2 = NoArgs
    /\ Call2(StoredArgs(term))

Next ==
    \/ ConstructAtomType
    \/ ConstructChargeIncrementTerm
    \/ ConstructVdwTerm
    \/ ConstructBondTerm
    \/ ConstructLJ126Term
    \/ ConstructMieTerm
    \/ ConstructHarmonicBondTerm
    \/ ConstructAngleTerm
    \/ ConstructHarmonicAngleTerm
    \/ ConstructSDKAngleTerm
    \/ ConstructDihedralTerm
    \/ ConstructPeriodicDihedralTerm
    \/ ConstructImproperTerm
    \/ ConstructOplsImproperTerm
    \/ ConstructHarmonicImproperTerm
    \/ ConstructPolarizableTerm
    \/ ConstructDrudeTerm
    \/ ConstructReordered
    \/ ConstructFromStored

Spec == Init /\ [][Next]_vars

----------------------------------------------------------------------------
(* The orders the claims speak of, stated without the recursion of the     *)
(* comparisons above                                                       *)

\* s is lexicographically smaller than t, by code points
LexStrLess(s, t) ==
    \E i \in 1..Len(t) :
        /\ \A j \in 1..(i - 1) : j <= Len(s) /\ s[j] = t[j]
        /\ \/ i = Len(s) + 1
           \/ i <= Len(s) /\ s[i] < t[i]

LexStrLeq(s, t) == s = t \/ LexStrLess(s, t)

\* the tuple x of strings is lexicographically smaller than the tuple y of
\* the same length
LexTupleLess(x, y) ==
    \E i \in 1..Len(x) :
        /\ \A j \in 1..(i - 1) : x[j] = y[j]
        /\ LexStrLess(x[i], y[i])

LexTupleLeq(x, y) == x = y \/ LexTupleLess(x, y)

\* the types an object stores, in the order of its slots
StoredTypes(self) == TypeArgs(self)

\* the second call was made with the types of the first in reverse order
\* and everything else the same
SecondIsReverse == kwargs2 # NoArgs /\ kwargs2 = WithTypes(kwargs, Reverse(TypeArgs(kwargs)))

\* the second call was made with the attributes the first term stores
SecondIsStored == term # NoTerm /\ kwargs2 = StoredArgs(term)

----------------------------------------------------------------------------
(* C1 *)

IsChargeIncrement == kwargs.cls = "ChargeIncrementTerm"

\* what C1 says of both orders, whatever it says of the stored value
C1_Common ==
    /\ term # NoTerm
    /\ LexStrLeq(term.type1, term.type2)
    /\ SecondIsReverse =>
           /\ term2 # NoTerm
           /\ name(term2) = name(term)
           /\ term2.value = 0 - term.value

\* C1 as stated: for a ChargeIncrementTerm built from distinct types and
\* any value v, the stored pair is ordered, the terms built from (a, b, v)
\* and (b, a, v) have the same name and opposite values, and the stored
\* value equals v exactly when the caller's type1 is the smaller type.
C1_Original ==
    (IsChargeIncrement /\ kwargs.type1 # kwargs.type2) =>
        /\ C1_Common
        /\ term.value = kwargs.value <=> LexStrLess(kwargs.type1, kwargs.type2)

\* C1 as amended: as C1, but the stored value equals v exactly when the
\* caller's type1 is the smaller type only for v # 0; for v = 0 the stored
\* value is 0 in both orders.
C1_Amended ==
    (IsChargeIncrement /\ kwargs.type1 # kwargs.type2) =>
        /\ C1_Common
        /\ kwargs.value # 0 =>
               (term.value = kwargs.value <=> LexStrLess(kwargs.type1, kwargs.type2))
        /\ kwargs.value = 0 => term.value = 0
        /\ LexStrLess(kwargs.type1, kwargs.type2) => term.value = kwargs.value
        /\ LexStrLess(kwargs.type2, kwargs.type1) => term.value = 0 - kwargs.value

\* ChargeIncrementTerm('h_1', 'c_4', v) with v # 0, and the same pair swapped
C1_Witness ==
    /\ IsChargeIncrement
    /\ kwargs.type1 = <<104, 95, 49>> /\ kwargs.type2 = <<99, 95, 52>>
    /\ kwargs.value # 0
    /\ term # NoTerm
    /\ term.type1 = <<99, 95, 52>> /\ term.type2 = <<104, 95, 49>>
    /\ term.value = 0 - kwargs.value
    /\ SecondIsReverse
    /\ term2 # NoTerm

----------------------------------------------------------------------------
(* C2 *)

\* C2: a ChargeIncrementTerm with type1 == type2 and value != 0 fails with
\* ChargeIncrementNonZeroError and yields no term; with type1 == type2 and
\* value == 0 the construction succeeds and the stored value is 0.
C2_SelfIncrement ==
    (IsChargeIncrement /\ kwargs.type1 = kwargs.type2) =>
        /\ kwargs.value # 0 =>
               term = NoTerm /\ error = "ChargeIncrementNonZeroError"
        /\ kwargs.value = 0 =>
               /\ error = NoError
               /\ term # NoTerm
               /\ term.value = 0
               /\ term.type1 = kwargs.type1 /\ term.type2 = kwargs.type1

C2_Witness ==
    /\ IsChargeIncrement
    /\ kwargs.type1 = kwargs.type2
    /\ kwargs.value # 0
    /\ error = "ChargeIncrementNonZeroError"
    /\ term = NoTerm

----------------------------------------------------------------------------
(* C3 *)

\* C3: for every pairwise term (VdwTerm, BondTerm, LJ126Term, MieTerm,
\* HarmonicBondTerm) the term built from (a, b) and the term built from
\* (b, a) with the same numeric parameters have the same type1, type2 and
\* name, and type1 <= type2.
C3_PairSymmetric ==
    kwargs.cls \in PairClasses =>
        /\ term # NoTerm
        /\ LexStrLeq(term.type1, term.type2)
        /\ {term.type1, term.type2} = {kwargs.type1, kwargs.type2}
        /\ SecondIsReverse =>
               /\ term2 # NoTerm
               /\ term2.type1 = term.type1
               /\ term2.type2 = term.type2
               /\ name(term2) = name(term)

\* a pair given in descending order, and then in ascending order
C3_Witness ==
    /\ kwargs.cls \in PairClasses
    /\ LexStrLess(kwargs.type2, kwargs.type1)
    /\ SecondIsReverse
    /\ term # NoTerm /\ term2 # NoTerm
    /\ term.type1 = kwargs.type2

----------------------------------------------------------------------------
(* C4 *)

\* C4: for every AngleTerm built from (a, v, c) the stored type2 is v, the
\* stored sides satisfy type1 <= type3 and are a and c, and building from
\* (c, v, a) gives the same name.
C4_AngleSides ==
    kwargs.cls \in AngleClasses =>
        /\ term # NoTerm
        /\ term.type2 = kwargs.type2
        /\ LexStrLeq(term.type1, term.type3)
        /\ \/ term.type1 = kwargs.type1 /\ term.type3 = kwargs.type3
           \/ term.type1 = kwargs.type3 /\ term.type3 = kwargs.type1
        /\ SecondIsReverse =>
               term2 # NoTerm /\ name(term2) = name(term)

\* sides given in descending order around a vertex smaller than either
\* side, or greater than either side
C4_Witness ==
    /\ kwargs.cls \in AngleClasses
    /\ LexStrLess(kwargs.type3, kwargs.type1)
    /\ \/ LexStrLess(kwargs.type2, kwargs.type3)
       \/ LexStrLess(kwargs.type1, kwargs.type2)
    /\ SecondIsReverse
    /\ term # NoTerm /\ term2 # NoTerm
    /\ term.type1 = kwargs.type3 /\ term.type2 = kwargs.type2

----------------------------------------------------------------------------
(* C5 *)

IsDihedral == kwargs.cls \in DihedralClasses
IsImproper == kwargs.cls \in ImproperClasses

\* the number of wildcards at the two ends of the dihedral given
WildcardEnds == Cardinality({i \in {1, 4} : TypeArgs(kwargs)[i] = Wildcard})

CentersValid == kwargs.type2 # Wildcard /\ kwargs.type3 # Wildcard

\* C5: for every DihedralTerm input in which exactly one of type1, type4
\* is the wildcard and neither center is, the term has type4 == '*' and
\* type1 != '*', and stores the input sequence unchanged or fully reversed.
C5_WildcardLast ==
    (IsDihedral /\ CentersValid /\ WildcardEnds = 1) =>
        /\ term # NoTerm
        /\ term.type4 = Wildcard
        /\ term.type1 # Wildcard
        /\ StoredTypes(term) \in {TypeArgs(kwargs), Reverse(TypeArgs(kwargs))}

\* the wildcard given first, the other end a literal that sorts after it
C5_Witness ==
    /\ IsDihedral /\ CentersValid
    /\ kwargs.type1 = Wildcard
    /\ kwargs.type4 # Wildcard
    /\ LexStrLess(Wildcard, kwargs.type4)
    /\ term # NoTerm
    /\ StoredTypes(term) = Reverse(TypeArgs(kwargs))
    /\ StoredTypes(term) # TypeArgs(kwargs)

----------------------------------------------------------------------------
(* C6 *)

\* C6: for every DihedralTerm input in which neither end or both ends are
\* the wildcard, the stored types are the lexicographically smaller of
\* (i, j, k, l) and (l, k, j, i).
C6_SmallerOfTwo ==
    (IsDihedral /\ CentersValid /\ WildcardEnds \in {0, 2}) =>
        /\ term # NoTerm
        /\ StoredTypes(term) \in {TypeArgs(kwargs), Reverse(TypeArgs(kwargs))}
        /\ LexTupleLeq(StoredTypes(term), TypeArgs(kwargs))
        /\ LexTupleLeq(StoredTypes(term), Reverse(TypeArgs(kwargs)))

\* equal ends, so that the centers decide, and the reverse is the smaller
C6_Witness ==
    /\ IsDihedral /\ CentersValid
    /\ kwargs.type1 = kwargs.type4
    /\ LexStrLess(kwargs.type3, kwargs.type2)
    /\ term # NoTerm
    /\ StoredTypes(term) = Reverse(TypeArgs(kwargs))

----------------------------------------------------------------------------
(* C7 *)

\* C7: for every valid dihedral input (i, j, k, l), with zero, one or two
\* wildcard ends, the term built from it and the term built from
\* (l, k, j, i) have the same name.
C7_ReverseSameName ==
    (IsDihedral /\ CentersValid /\ SecondIsReverse) =>
        /\ term # NoTerm
        /\ term2 # NoTerm
        /\ name(term2) = name(term)
        /\ name(term) = term.type1 \o Comma \o term.type2 \o Comma
                            \o term.type3 \o Comma \o term.type4

\* a dihedral that is not its own reverse, built in both directions
C7_Witness ==
    /\ IsDihedral /\ CentersValid /\ SecondIsReverse
    /\ kwargs2 # kwargs
    /\ kwargs.type1 = kwargs.type4
    /\ term # NoTerm /\ term2 # NoTerm

----------------------------------------------------------------------------
(* C8 *)

Sides(kw) == <<kw.type2, kw.type3, kw.type4>>

\* the number of slots of the sequence s that hold t
Occurrences(s, t) == Cardinality({i \in 1..Len(s) : s[i] = t})

\* the second call gave the same center and a permutation of the sides
SecondIsSidePermutation == kwargs2 # NoArgs /\ kwargs2 \in Reorderings(kwargs)

\* C8: for every ImproperTerm built from (c, s1, s2, s3) with c != '*', the
\* stored type1 is c and the stored sides are the non-wildcard sides in
\* ascending order followed by the wildcards; every permutation of the
\* sides yields the same name; no wildcard precedes a non-wildcard.
C8_ImproperSides ==
    (IsImproper /\ kwargs.type1 # Wildcard) =>
        /\ term # NoTerm
        /\ term.type1 = kwargs.type1
        /\ \A t \in Types : Occurrences(Sides(term), t) = Occurrences(Sides(kwargs), t)
        /\ \A i \in 1..3, j \in 1..3 :
               i < j =>
                   /\ Sides(term)[i] = Wildcard => Sides(term)[j] = Wildcard
                   /\ Sides(term)[j] # Wildcard =>
                          LexStrLeq(Sides(term)[i], Sides(term)[j])
        /\ SecondIsSidePermutation =>
               term2 # NoTerm /\ name(term2) = name(term)

\* sides holding a wildcard, a literal that sorts before it and a literal
\* that sorts after it, given in two different orders
C8_Witness ==
    /\ IsImproper /\ kwargs.type1 # Wildcard
    /\ \E i \in 1..3 : Sides(kwargs)[i] = Wildcard
    /\ \E i \in 1..3 : LexStrLess(Sides(kwargs)[i], Wildcard)
    /\ \E i \in 1..3 : LexStrLess(Wildcard, Sides(kwargs)[i])
    /\ SecondIsSidePermutation
    /\ kwargs2 # kwargs
    /\ term # NoTerm /\ term2 # NoTerm
    /\ term.type4 = Wildcard

----------------------------------------------------------------------------
(* C9 *)

\* C9: a wildcard in a forbidden slot makes construction fail with no term
\* produced: a dihedral with type2 == '*' or type3 == '*', an improper with
\* type1 == '*'.
C9_ForbiddenWildcard ==
    /\ (IsDihedral /\ ~CentersValid) => term = NoTerm /\ error = "Exception"
    /\ (IsImproper /\ kwargs.type1 = Wildcard) => term = NoTerm /\ error = "Exception"
    /\ (kwargs2.cls \in DihedralClasses /\ Wildcard \in {kwargs2.type2, kwargs2.type3}) =>
           term2 = NoTerm /\ error2 = "Exception"
    /\ (kwargs2.cls \in ImproperClasses /\ kwargs2.type1 = Wildcard) =>
           term2 = NoTerm /\ error2 = "Exception"

\* a periodic dihedral whose second center alone is the wildcard
C9_Witness ==
    /\ kwargs.cls = "PeriodicDihedralTerm"
    /\ kwargs.type2 # Wildcard
    /\ kwargs.type3 = Wildcard
    /\ term = NoTerm
    /\ error = "Exception"

----------------------------------------------------------------------------
(* C10 *)

\* C10: constructing a term of the same class from the stored fields of a
\* constructed term yields a term with the same stored type fields, the
\* same name and, for ChargeIncrementTerm, the same value.
C10_Idempotent ==
    SecondIsStored =>
        /\ term2 # NoTerm
        /\ error2 = NoError
        /\ term2.cls = term.cls
        /\ StoredTypes(term2) = StoredTypes(term)
        /\ name(term2) = name(term)
        /\ term.cls = "ChargeIncrementTerm" => term2.value = term.value

\* a charge increment whose pair was swapped and whose value was negated,
\* built again from what it stores
C10_Witness ==
    /\ SecondIsStored
    /\ IsChargeIncrement
    /\ kwargs.type1 # term.type1
    /\ term.value # 0
    /\ term.value = 0 - kwargs.value
    /\ term2 # NoTerm

----------------------------------------------------------------------------
(* PeriodicDihedralTerm: the list of parameters                            *)
(*                                                                         *)
(* A number given as multiplicity is a record of its Python type and of    *)
(* twice its value, so that 2 (an int), 2.0 and 1.5 (floats) are distinct  *)
(* arguments and 2 == 2.0 holds as in Python.  phi and k are integers in   *)
(* units of 1 / Unit.                                                      *)

\* the parameters a PeriodicDihedralTerm holds in this model are at most
MaxParams == 3

UnitDigits == 5
Unit == 10 ^ UnitDigits

IntNumber(v) == [type |-> "int", halves |-> 2 * v]
FloatHalves(h) == [type |-> "float", halves |-> h]

\* isinstance(n, int)
IsInt(n) == n.type = "int"

\* x == y on numbers
NumEq(x, y) == x.halves = y.halves

\* x < y on numbers
NumLess(x, y) == x.halves < y.halves

\* Parameter = namedtuple('Parameter', ('phi', 'k', 'n'))
Parameter(phi, k, n) == [phi |-> phi, k |-> k, n |-> n]

\* the outcome of a method call: the exception raised or the value
\* returned, and the object as the call leaves it
Raised(self, exc) == [raised |-> exc, self |-> self, value |-> None]
Returned(self, value) == [raised |-> NoError, self |-> self, value |-> value]

\* faulty variant: the type of the multiplicity is not looked at
MultiplicityInvalid_TypeIgnored(n) == NumLess(n, IntNumber(1))

\* not isinstance(n, int) or n < 1
MultiplicityInvalid(n) == ~IsInt(n) \/ NumLess(n, IntNumber(1))

\* for para in self.parameters: if para.n == n
MultiplicityPresent(parameters, n) ==
    \E i \in 1..Len(parameters) : NumEq(parameters[i].n, n)

RECURSIVE InsertByN(_, _)
InsertByN(e, ps) ==
    IF ps = << >> THEN <<e>>
    ELSE IF NumLess(e.n, Head(ps).n) THEN <<e>> \o ps
    ELSE <<Head(ps)>> \o InsertByN(e, Tail(ps))

\* faulty variant: the list is left in the order of the calls
SortedByN_Unsorted(ps) == ps

\* self.parameters.sort(key=lambda x: x.n) : a stable sort
RECURSIVE SortedByN(_)
SortedByN(ps) ==
    IF ps = << >> THEN << >>
    ELSE InsertByN(ps[Len(ps)], SortedByN(SubSeq(ps, 1, Len(ps) - 1)))

\* PeriodicDihedralTerm.add_parameter
add_parameter(self, phi, k, n) ==
    IF MultiplicityInvalid(n) THEN Raised(self, "Exception")
    ELSE IF MultiplicityPresent(self.parameters, n) THEN Raised(self, "Exception")
    ELSE Returned([self EXCEPT !.parameters =
                                   SortedByN(Append(@, Parameter(phi, k, n)))],
                  None)

\* faulty variant: a multiplicity above 4 is accepted whatever its k
OplsParameterOk_HighIgnored(para) ==
    IF NumEq(para.n, IntNumber(1)) THEN para.phi = 0
    ELSE IF NumEq(para.n, IntNumber(2)) THEN para.phi = 180 * Unit
    ELSE IF NumEq(para.n, IntNumber(3)) THEN para.phi = 0
    ELSE IF NumEq(para.n, IntNumber(4)) THEN para.phi = 180 * Unit
    ELSE TRUE

\* the body of the loop of is_opls_convention: FALSE where it returns False
OplsParameterOk(para) ==
    IF NumEq(para.n, IntNumber(1)) THEN para.phi = 0
    ELSE IF NumEq(para.n, IntNumber(2)) THEN para.phi = 180 * Unit
    ELSE IF NumEq(para.n, IntNumber(3)) THEN para.phi = 0
    ELSE IF NumEq(para.n, IntNumber(4)) THEN para.phi = 180 * Unit
    ELSE para.k = 0

RECURSIVE OplsLoop(_)
OplsLoop(ps) ==
    IF ps = << >> THEN TRUE
    ELSE IF ~OplsParameterOk(Head(ps)) THEN FALSE
    ELSE OplsLoop(Tail(ps))

\* PeriodicDihedralTerm.is_opls_convention
is_opls_convention(self) == OplsLoop(self.parameters)

\* faulty variant: only the first parameter is looked at
is_zero_FirstOnly(self) == self.parameters = << >> \/ self.parameters[1].k = 0

RECURSIVE ZeroLoop(_)
ZeroLoop(ps) ==
    IF ps = << >> THEN TRUE
    ELSE IF Head(ps).k # 0 THEN FALSE
    ELSE ZeroLoop(Tail(ps))

\* PeriodicDihedralTerm.is_zero
is_zero(self) == ZeroLoop(self.parameters)

\* faulty variant: the branch of n == 3 assigns k1
OplsSlot_CopyPaste(n) == IF NumEq(n, IntNumber(3)) THEN 1 ELSE n.halves \div 2

\* the k1 .. k4 the branch of para.n == 1 .. 4 of get_opls_parameters assigns
OplsSlot(n) == n.halves \div 2

\* the branches of the loop of get_opls_parameters: TRUE where it raises
GetOplsRaises(para) ==
    IF NumEq(para.n, IntNumber(1)) THEN para.phi # 0
    ELSE IF NumEq(para.n, IntNumber(2)) THEN para.phi # 180 * Unit
    ELSE IF NumEq(para.n, IntNumber(3)) THEN para.phi # 0
    ELSE IF NumEq(para.n, IntNumber(4)) THEN para.phi # 180 * Unit
    ELSE TRUE

\* the loop of get_opls_parameters over the parameters ps, ks being
\* (k1, k2, k3, k4) so far: whether it raises, and the tuple it ends with
RECURSIVE GetOplsLoop(_, _)
GetOplsLoop(ps, ks) ==
    IF ps = << >> THEN [raises |-> FALSE, ks |-> ks]
    ELSE IF GetOplsRaises(Head(ps)) THEN [raises |-> TRUE, ks |-> ks]
    ELSE GetOplsLoop(Tail(ps), [ks EXCEPT ![OplsSlot(Head(ps).n)] = Head(ps).k])

\* PeriodicDihedralTerm.get_opls_parameters
get_opls_parameters(self) ==
    LET r == GetOplsLoop(self.parameters, <<0, 0, 0, 0>>)
    IN  IF r.raises THEN Raised(self, "Exception") ELSE Returned(self, r.ks)

----------------------------------------------------------------------------
(* The state machine of a PeriodicDihedralTerm: parameters are added to a  *)
(* constructed term and its properties are read.                           *)

\* '*', 'c_4', 'c_4', 'h_1'
DihedralSamples ==
    {[cls |-> "PeriodicDihedralTerm", type1 |-> <<42>>, type2 |-> <<99, 95, 52>>,
      type3 |-> <<99, 95, 52>>, type4 |-> <<104, 95, 49>>]}

\* 0 and 180 degrees
PhiValues == {0, 180 * Unit}

\* 0 and 0.6485
KValues == {0, 64850}

\* the multiplicities the callers give: 0 .. 5, 1.5 and 2.0
NValues == {IntNumber(v) : v \in 0..5} \cup {FloatHalves(3), FloatHalves(4)}

InitDihedral ==
    /\ \E kw \in DihedralSamples :
           /\ kwargs = kw
           /\ term = New(kw).obj
           /\ error = New(kw).raised
    /\ kwargs2 = NoArgs /\ term2 = NoTerm /\ error2 = NoError
    /\ class_map = LoadedClassMap
    /\ registrations = Len(RegisteredNames)
    /\ call = NoCall
    /\ zfp = NoElement

\* the record of a call of a method of term : the multiplicity given, if
\* any, the parameters before the call, and the outcome
MethodCall(method, n, r) ==
    [method |-> method, n |-> n, before |-> term.parameters,
     raised |-> r.raised, value |-> r.value]

\* term.add_parameter(phi, k, n), the arguments drawn from phis, ks and ns
AddParameterFrom(phis, ks, ns) ==
    /\ term.cls = "PeriodicDihedralTerm"
    /\ \E phi \in phis, k \in ks, n \in ns :
           LET r == add_parameter(term, phi, k, n)
           IN  /\ r.raised # NoError \/ Len(term.parameters) < MaxParams
               /\ term' = r.self
               /\ call' = MethodCall("add_parameter", n, r)
    /\ UNCHANGED <<kwargs, error, kwargs2, term2, error2, class_map, zfp, registrations>>

\* term.is_opls_convention
IsOplsConvention ==
    /\ term # NoTerm
    /\ call' = MethodCall("is_opls_convention", IntNumber(0),
                          Returned(term, is_opls_convention(term)))
    /\ UNCHANGED <<kwargs, term, error, kwargs2, term2, error2, class_map, zfp, registrations>>

\* term.is_zero
IsZero ==
    /\ term # NoTerm
    /\ call' = MethodCall("is_zero", IntNumber(0), Returned(term, is_zero(term)))
    /\ UNCHANGED <<kwargs, term, error, kwargs2, term2, error2, class_map, zfp, registrations>>

\* term.get_opls_parameters()
GetOplsParameters ==
    /\ term # NoTerm
    /\ call' = MethodCall("get_opls_parameters", IntNumber(0), get_opls_parameters(term))
    /\ UNCHANGED <<kwargs, term, error, kwargs2, term2, error2, class_map, zfp, registrations>>

AddParameter == AddParameterFrom(PhiValues, KValues, NValues)

NextDihedral ==
    \/ AddParameter
    \/ IsOplsConvention
    \/ IsZero
    \/ GetOplsParameters

SpecDihedral == InitDihedral /\ [][NextDihedral]_vars

----------------------------------------------------------------------------
(* C11 *)

\* the multiplicity of the i-th parameter of term, when it is an integer
Multiplicity(ps, i) == ps[i].n.halves \div 2

\* C11: after any sequence of add_parameter calls, successful or failing,
\* the parameter list is strictly increasing in n, holds no n twice, and
\* every n is a positive integer.
C11_ParametersOrdered ==
    term # NoTerm =>
        /\ \A i \in 1..Len(term.parameters) :
               /\ term.parameters[i].n.type = "int"
               /\ term.parameters[i].n.halves = 2 * Multiplicity(term.parameters, i)
               /\ Multiplicity(term.parameters, i) >= 1
        /\ \A i \in 1..Len(term.parameters), j \in 1..Len(term.parameters) :
               i < j => Multiplicity(term.parameters, i) < Multiplicity(term.parameters, j)

\* a parameter added after two parameters of greater multiplicity
C11_Witness ==
    /\ call.method = "add_parameter"
    /\ call.raised = NoError
    /\ Len(call.before) = 2
    /\ Len(term.parameters) = 3
    /\ term.parameters[1].n = call.n
    /\ Multiplicity(term.parameters, 1) < Multiplicity(call.before, 1)

----------------------------------------------------------------------------
(* C12 *)

\* the multiplicity given to the last call is one the list held already
GivenPresent == \E i \in 1..Len(call.before) : call.before[i].n.halves = call.n.halves

\* C12: add_parameter raises when n is already in the list, when n < 1,
\* or when n is not an integer, and then leaves the list as it was.
C12_AddParameterRefuses ==
    (/\ call.method = "add_parameter"
     /\ GivenPresent \/ call.n.halves < 2 \/ call.n.type # "int") =>
        /\ call.raised = "Exception"
        /\ term.parameters = call.before

\* a multiplicity given a second time to a term that holds two parameters
C12_Witness ==
    /\ call.method = "add_parameter"
    /\ call.n.type = "int" /\ call.n.halves >= 2
    /\ GivenPresent
    /\ Len(call.before) = 2
    /\ call.raised = "Exception"
    /\ term.parameters = call.before

----------------------------------------------------------------------------
(* C13 *)

\* C13: get_opls_parameters returns a result exactly when
\* is_opls_convention is true, and raises exactly when it is false; a
\* parameter with n > 4 and k = 0 is treated the same way by both.
C13_GetIffConvention ==
    call.method = "get_opls_parameters" =>
        (call.raised = NoError <=> is_opls_convention(term))

----------------------------------------------------------------------------
(* C14 *)

\* the parameter p fits the OPLS pattern
FitsOpls(p) ==
    LET n == p.n.halves \div 2
    IN  /\ n \in {1, 3} => p.phi = 0
        /\ n \in {2, 4} => p.phi = 180 * Unit
        /\ n > 4 => p.k = 0

\* C14: is_opls_convention is true if and only if every parameter with
\* n = 1 or 3 has phi = 0, every parameter with n = 2 or 4 has phi = 180,
\* and every parameter with n > 4 has k = 0; with no parameter it is true.
C14_OplsConvention ==
    call.method = "is_opls_convention" =>
        (call.value <=> \A i \in 1..Len(term.parameters) : FitsOpls(term.parameters[i]))

\* a conventional term holding n = 2 and n = 5
C14_Witness ==
    /\ call.method = "is_opls_convention"
    /\ call.value = TRUE
    /\ \E i \in 1..Len(term.parameters) : Multiplicity(term.parameters, i) = 2
    /\ \E i \in 1..Len(term.parameters) : Multiplicity(term.parameters, i) = 5

----------------------------------------------------------------------------
(* C15 *)

\* the force constant of the parameter of multiplicity m, 0 when absent
ForceConstant(ps, m) ==
    IF \E i \in 1..Len(ps) : Multiplicity(ps, i) = m
    THEN ps[CHOOSE i \in 1..Len(ps) : Multiplicity(ps, i) = m].k
    ELSE 0

\* C15: when get_opls_parameters succeeds on a term whose multiplicities
\* all lie in 1..4, it returns (k1, k2, k3, k4), k_n being the force
\* constant of the parameter of multiplicity n, or 0 when there is none;
\* the list being a function of the set of parameters added (C11), this
\* does not depend on the order of the calls that added them.
C15_OplsParameters ==
    (/\ call.method = "get_opls_parameters"
     /\ call.raised = NoError
     /\ \A i \in 1..Len(term.parameters) : Multiplicity(term.parameters, i) \in 1..4) =>
        call.value = [m \in 1..4 |-> ForceConstant(term.parameters, m)]

\* n = 1, 2, 3 held with k # 0 and n = 4 absent
C15_Witness ==
    /\ call.method = "get_opls_parameters"
    /\ call.raised = NoError
    /\ Len(term.parameters) = 3
    /\ \A i \in 1..3 : Multiplicity(term.parameters, i) = i /\ term.parameters[i].k # 0
    /\ call.value[4] = 0
    /\ call.value[3] # 0

----------------------------------------------------------------------------
(* C16 *)

\* C16: is_zero of a PeriodicDihedralTerm is true if and only if every
\* parameter of its list has k = 0.
C16_IsZero ==
    call.method = "is_zero" =>
        (call.value <=> \A i \in 1..Len(term.parameters) : term.parameters[i].k = 0)

\* a first parameter with k = 0 followed by one with k # 0
C16_Witness ==
    /\ call.method = "is_zero"
    /\ call.value = FALSE
    /\ Len(term.parameters) >= 2
    /\ term.parameters[1].k = 0

----------------------------------------------------------------------------
(* The registry of the classes: the module is loaded, its register         *)
(* statements run in order, and the callers then register classes of       *)
(* their own, some of them named as a class of the module.                 *)

\* number of register calls the callers make once the module is loaded
MaxRegistrations == 2

\* a class statement of a caller's module that defines a class called n
\* with no attribute of its own: class n(FFTerm): pass
UserClass(n) == [name |-> n, module |-> "caller"]

\* the names of the classes the callers register
UserNames ==
    {RegisteredNames[i] : i \in 1..Len(RegisteredNames)} \cup BaseNames \cup {"UserTerm"}

\* the classes the callers register: their own, and those of the module
UserClasses ==
    {UserClass(n) : n \in UserNames} \cup {ModuleClass(n) : n \in UserNames \ {"UserTerm"}}

InitRegistry ==
    /\ kwargs = NoArgs /\ term = NoTerm /\ error = NoError
    /\ kwargs2 = NoArgs /\ term2 = NoTerm /\ error2 = NoError
    /\ class_map = EmptyClassMap
    /\ registrations = 0
    /\ call = NoCall
    /\ zfp = NoElement

\* FFTermFactory.register(klass) : the call never raises
Register(klass) ==
    /\ class_map' = register(class_map, klass)
    /\ registrations' = registrations + 1
    /\ call' = [method |-> "register", klass |-> klass, before |-> class_map,
                raised |-> NoError]
    /\ UNCHANGED <<kwargs, term, error, kwargs2, term2, error2, zfp>>

\* the next FFTermFactory.register(...) statement of the module
LoadRegister ==
    /\ registrations < Len(RegisteredNames)
    /\ Register(ModuleClass(RegisteredNames[registrations + 1]))

\* a caller registers a class once the module is loaded
UserRegister ==
    /\ registrations >= Len(RegisteredNames)
    /\ registrations < Len(RegisteredNames) + MaxRegistrations
    /\ \E klass \in UserClasses : Register(klass)

----------------------------------------------------------------------------
(* C18 *)

\* C18: FFTermFactory.register(variant) fails when a variant is already
\* registered under the same name: once the module is loaded, a register
\* call never replaces the class a name is registered with.
C18_RegisterRefusesDuplicate ==
    (/\ call.method = "register"
     /\ registrations > Len(RegisteredNames)
     /\ call.klass.name \in DOMAIN call.before) =>
        /\ call.raised # NoError
        /\ class_map = call.before

----------------------------------------------------------------------------
(* Text: the conversions between values and the strings of a ZFP file.     *)
(* A float is the integer number of its 1/Unit; the floats of the model    *)
(* are 0 and those of magnitude between 0.0001 and 10^16, which str()      *)
(* writes without an exponent.                                             *)

\* the decimal digits of the natural number v
RECURSIVE Digits(_)
Digits(v) == IF v < 10 THEN <<48 + v>> ELSE Digits(v \div 10) \o <<48 + (v % 10)>>

\* '-' before the digits of a negative number
Sign(v) == IF v < 0 THEN <<45>> ELSE << >>

Abs(v) == IF v < 0 THEN 0 - v ELSE v

\* '%i' % v
FormatInt(v) == Sign(v) \o Digits(Abs(v))

\* the digits s filled with '0' on the left to the width w
RECURSIVE ZeroPad(_, _)
ZeroPad(s, w) == IF Len(s) >= w THEN s ELSE ZeroPad(<<48>> \o s, w)

\* '%.<p>f' % v : v rounded to p decimals, to nearest; a float of the
\* model is never half way between two neighbours
FormatFixed(v, p) ==
    LET step == 10 ^ (UnitDigits - p)
        q == Abs(v) \div step
        r == Abs(v) % step
        m == IF 2 * r > step \/ (2 * r = step /\ q % 2 = 1) THEN q + 1 ELSE q
    IN  Sign(v) \o Digits(m \div (10 ^ p)) \o <<46>> \o ZeroPad(Digits(m % (10 ^ p)), p)

\* the digits s without the '0' that end it, one digit kept
RECURSIVE StripZeros(_)
StripZeros(s) ==
    IF Len(s) > 1 /\ s[Len(s)] = 48 THEN StripZeros(SubSeq(s, 1, Len(s) - 1)) ELSE s

\* str(v) of a float v : the shortest decimal that reads back as v
ReprFloat(v) ==
    Sign(v) \o Digits(Abs(v) \div Unit) \o <<46>>
        \o StripZeros(ZeroPad(Digits(Abs(v) % Unit), UnitDigits))

\* str(b) of a bool b : 'True' or 'False'
ReprBool(b) == IF b THEN <<84, 114, 117, 101>> ELSE <<70, 97, 108, 115, 101>>

\* the message of an exception : its format and the inputs written into it
Message(format, holds) == [format |-> format, holds |-> holds]
NoMessage == Message("", {})

\* the outcome of a conversion
Converted(v) == [raised |-> NoError, message |-> NoMessage, value |-> v]
NotConverted(exc, format) ==
    [raised |-> exc, message |-> Message(format, {"value"}), value |-> None]

IsDigit(c) == c \in 48..57
AllDigits(s) == \A i \in 1..Len(s) : IsDigit(s[i])

\* the natural number the digits s write
RECURSIVE DigitsValue(_)
DigitsValue(s) ==
    IF s = << >> THEN 0
    ELSE 10 * DigitsValue(SubSeq(s, 1, Len(s) - 1)) + (s[Len(s)] - 48)

\* the text s without its sign
Unsigned(s) == IF s # << >> /\ s[1] \in {43, 45} THEN Tail(s) ELSE s

Negative(s) == s # << >> /\ s[1] = 45

\* int(s) : a sign and digits
int(s) ==
    LET u == Unsigned(s)
    IN  IF u # << >> /\ AllDigits(u)
        THEN Converted(IF Negative(s) THEN 0 - DigitsValue(u) ELSE DigitsValue(u))
        ELSE NotConverted("ValueError", "invalid literal for int() with base 10: %r")

\* the digits s cut or filled with '0' on the right to the width w
RECURSIVE RightPad(_, _)
RightPad(s, w) ==
    IF Len(s) >= w THEN SubSeq(s, 1, w) ELSE RightPad(s \o <<48>>, w)

\* float(s) : a sign, digits and a point, read to 1/Unit (the texts of
\* the model hold no exponent, 'inf', 'nan', blank or '_')
float(s) ==
    LET u == Unsigned(s)
        dots == {i \in 1..Len(u) : u[i] = 46}
        dot == IF dots = {} THEN Len(u) + 1 ELSE CHOOSE i \in dots : \A j \in dots : i <= j
        ip == SubSeq(u, 1, dot - 1)
        fp == SubSeq(u, dot + 1, Len(u))
        mag == DigitsValue(ip) * Unit + DigitsValue(RightPad(fp, UnitDigits))
    IN  IF AllDigits(ip) /\ AllDigits(fp) /\ (ip # << >> \/ fp # << >>)
        THEN Converted(IF Negative(s) THEN 0 - mag ELSE mag)
        ELSE NotConverted("ValueError", "could not convert string to float: %r")

\* str.lower
Lower(s) == [i \in 1..Len(s) |-> IF s[i] \in 65..90 THEN s[i] + 32 ELSE s[i]]

\* distutils.util.strtobool : 'y', 'yes', 't', 'true', 'on', '1' are true,
\* 'n', 'no', 'f', 'false', 'off', '0' are false, in either case
strtobool(s) ==
    LET true == {<<121>>, <<121, 101, 115>>, <<116>>, <<116, 114, 117, 101>>, <<111, 110>>, <<49>>}
        false == {<<110>>, <<110, 111>>, <<102>>, <<102, 97, 108, 115, 101>>, <<111, 102, 102>>, <<48>>}
    IN  IF Lower(s) \in true THEN Converted(1)
        ELSE IF Lower(s) \in false THEN Converted(0)
        ELSE NotConverted("ValueError", "invalid truth value %r")

\* lambda x: bool(strtobool(x))
bool_strtobool(s) ==
    LET r == strtobool(s)
    IN  IF r.raised = NoError THEN Converted(r.value # 0) ELSE r

----------------------------------------------------------------------------
(* dict : the sequence of its items in the order of their insertion, no    *)
(* key twice                                                               *)

Item(key, value) == [key |-> key, value |-> value]

\* key in d
HasKey(d, key) == \E i \in 1..Len(d) : d[i].key = key

\* d[key]
GetItem(d, key) == d[CHOOSE i \in 1..Len(d) : d[i].key = key].value

\* d[key] = value
SetItem(d, key, value) ==
    IF HasKey(d, key)
    THEN [i \in 1..Len(d) |-> IF d[i].key = key THEN Item(key, value) ELSE d[i]]
    ELSE Append(d, Item(key, value))

\* d.update(e)
RECURSIVE update(_, _)
update(d, e) ==
    IF e = << >> THEN d
    ELSE update(SetItem(d, Head(e).key, Head(e).value), Tail(e))

----------------------------------------------------------------------------
(* _zfp_attrs, to_zfp and create_from_zfp *)

\* the name of an attribute as the key of a dict
AttrText ==
    [name |-> <<110, 97, 109, 101>>,
     mass |-> <<109, 97, 115, 115>>,
     charge |-> <<99, 104, 97, 114, 103, 101>>,
     eqt_vdw |-> <<101, 113, 116, 95, 118, 100, 119>>,
     eqt_bond |-> <<101, 113, 116, 95, 98, 111, 110, 100>>,
     eqt_q_inc |-> <<101, 113, 116, 95, 113, 95, 105, 110, 99>>,
     eqt_ang_c |-> <<101, 113, 116, 95, 97, 110, 103, 95, 99>>,
     eqt_ang_s |-> <<101, 113, 116, 95, 97, 110, 103, 95, 115>>,
     eqt_dih_c |-> <<101, 113, 116, 95, 100, 105, 104, 95, 99>>,
     eqt_dih_s |-> <<101, 113, 116, 95, 100, 105, 104, 95, 115>>,
     eqt_imp_c |-> <<101, 113, 116, 95, 105, 109, 112, 95, 99>>,
     eqt_imp_s |-> <<101, 113, 116, 95, 105, 109, 112, 95, 115>>,
     eqt_polar |-> <<101, 113, 116, 95, 112, 111, 108, 97, 114>>,
     type1 |-> <<116, 121, 112, 101, 49>>,
     type2 |-> <<116, 121, 112, 101, 50>>,
     type3 |-> <<116, 121, 112, 101, 51>>,
     type4 |-> <<116, 121, 112, 101, 52>>,
     value |-> <<118, 97, 108, 117, 101>>,
     epsilon |-> <<101, 112, 115, 105, 108, 111, 110>>,
     sigma |-> <<115, 105, 103, 109, 97>>,
     repulsion |-> <<114, 101, 112, 117, 108, 115, 105, 111, 110>>,
     attraction |-> <<97, 116, 116, 114, 97, 99, 116, 105, 111, 110>>,
     length |-> <<108, 101, 110, 103, 116, 104>>,
     k |-> <<107>>,
     fixed |-> <<102, 105, 120, 101, 100>>,
     theta |-> <<116, 104, 101, 116, 97>>,
     phi |-> <<112, 104, 105>>,
     type |-> <<116, 121, 112, 101>>,
     alpha |-> <<97, 108, 112, 104, 97>>,
     thole |-> <<116, 104, 111, 108, 101>>,
     merge_alpha_H |-> <<109, 101, 114, 103, 101, 95, 97, 108, 112, 104, 97, 95, 72>>]

Attr(attr, func) == [attr |-> attr, func |-> func]

\* cls._zfp_attrs : the attributes written to a ZFP file, in order, each
\* with the function that reads it back; {} for a class that sets none
ZfpAttrs(cls) ==
    CASE cls = "AtomType" ->
           << Attr("name", "str"), Attr("mass", "float"), Attr("charge",
           "float"), Attr("eqt_vdw", "str"), Attr("eqt_bond", "str"),
           Attr("eqt_q_inc", "str"), Attr("eqt_ang_c", "str"),
           Attr("eqt_ang_s", "str"), Attr("eqt_dih_c", "str"),
           Attr("eqt_dih_s", "str"), Attr("eqt_imp_c", "str"),
           Attr("eqt_imp_s", "str"), Attr("eqt_polar", "str") >>
      [] cls = "ChargeIncrementTerm" ->
           << Attr("type1", "str"), Attr("type2", "str"), Attr("value",
           "float") >>
      [] cls = "LJ126Term" ->
           << Attr("type1", "str"), Attr("type2", "str"), Attr("epsilon",
           "float"), Attr("sigma", "float") >>
      [] cls = "MieTerm" ->
           << Attr("type1", "str"), Attr("type2", "str"), Attr("epsilon",
           "float"), Attr("sigma", "float"), Attr("repulsion", "float"),
           Attr("attraction", "float") >>
      [] cls = "HarmonicBondTerm" ->
           << Attr("type1", "str"), Attr("type2", "str"), Attr("length",
           "float"), Attr("k", "float"), Attr("fixed", "bool(strtobool)") >>
      [] cls = "HarmonicAngleTerm" ->
           << Attr("type1", "str"), Attr("type2", "str"), Attr("type3",
           "str"), Attr("theta", "float"), Attr("k", "float"), Attr("fixed",
           "bool(strtobool)") >>
      [] cls = "SDKAngleTerm" ->
           << Attr("type1", "str"), Attr("type2", "str"), Attr("type3",
           "str"), Attr("theta", "float"), Attr("k", "float") >>
      [] cls = "PeriodicDihedralTerm" ->
           << Attr("type1", "str"), Attr("type2", "str"), Attr("type3",
           "str"), Attr("type4", "str") >>
      [] cls = "OplsImproperTerm" ->
           << Attr("type1", "str"), Attr("type2", "str"), Attr("type3",
           "str"), Attr("type4", "str"), Attr("k", "float") >>
      [] cls = "HarmonicImproperTerm" ->
           << Attr("type1", "str"), Attr("type2", "str"), Attr("type3",
           "str"), Attr("type4", "str"), Attr("phi", "float"), Attr("k",
           "float") >>
      [] cls = "DrudeTerm" ->
           << Attr("type", "str"), Attr("alpha", "float"), Attr("thole",
           "float"), Attr("k", "float"), Attr("mass", "float"),
           Attr("merge_alpha_H", "float") >>
      [] OTHER -> << >>

\* str(value), value being an attribute of the kind func reads back
Str(func, value) ==
    CASE func = "str" -> value
      [] func = "float" -> ReprFloat(value)
      [] func = "bool(strtobool)" -> ReprBool(value)

\* func(text)
Decode(func, text) ==
    CASE func = "str" -> Converted(text)
      [] func = "float" -> float(text)
      [] func = "bool(strtobool)" -> bool_strtobool(text)

\* 'phi_'
PhiPrefix == <<112, 104, 105, 95>>
\* 'k_'
KPrefix == <<107, 95>>

\* faulty variant: the multiplicity is left out of the key
ParameterKey_NoSuffix(prefix, v) == prefix

\* 'phi_%i' % n and 'k_%i' % n
ParameterKey(prefix, v) == prefix \o FormatInt(v)

\* PeriodicDihedralTerm._to_zfp_extra
RECURSIVE PeriodicDihedralTerm_to_zfp_extra(_, _)
PeriodicDihedralTerm_to_zfp_extra(ps, d) ==
    IF ps = << >> THEN d
    ELSE LET para == Head(ps)
             n == para.n.halves \div 2
         IN  PeriodicDihedralTerm_to_zfp_extra(Tail(ps),
                 update(d, << Item(ParameterKey(PhiPrefix, n), FormatFixed(para.phi, 1)),
                              Item(ParameterKey(KPrefix, n), FormatFixed(para.k, 4)) >>))

\* self._to_zfp_extra(), resolved through the class of self
to_zfp_extra(self) ==
    IF self.cls = "PeriodicDihedralTerm"
    THEN PeriodicDihedralTerm_to_zfp_extra(self.parameters, << >>)
    ELSE << >>

\* for attr, func in self._zfp_attrs.items(): d[attr] = str(getattr(self, attr))
RECURSIVE ToZfpLoop(_, _, _)
ToZfpLoop(self, attrs, d) ==
    IF attrs = << >> THEN d
    ELSE LET a == Head(attrs)
         IN  ToZfpLoop(self, Tail(attrs),
                       SetItem(d, AttrText[a.attr], Str(a.func, self[a.attr])))

\* FFTerm.to_zfp
to_zfp(self) == update(ToZfpLoop(self, ZfpAttrs(self.cls), << >>), to_zfp_extra(self))

\* the outcome of a step of create_from_zfp
Failed(exc, message, self) == [raised |-> exc, message |-> message, self |-> self]
Done(self) == [raised |-> NoError, message |-> NoMessage, self |-> self]

\* for attr, func in cls._zfp_attrs.items(): kwargs[attr] = func(d[attr])
\* self is kwargs, with the class to call as its cls
RECURSIVE DecodeLoop(_, _, _)
DecodeLoop(attrs, d, kw) ==
    IF attrs = << >> THEN Done(kw)
    ELSE LET a == Head(attrs)
         IN  IF ~HasKey(d, AttrText[a.attr])
             THEN Failed("KeyError", Message("%r", {"key"}), kw)
             ELSE LET v == Decode(a.func, GetItem(d, AttrText[a.attr]))
                  IN  IF v.raised # NoError THEN Failed(v.raised, v.message, kw)
                      ELSE DecodeLoop(Tail(attrs), d, (a.attr :> v.value) @@ kw)

\* the parameters of cls.__init__ that have no default
RequiredArgs(cls) ==
    CASE cls = "AtomType" -> {"name"}
      [] cls = "ChargeIncrementTerm" -> {"type1", "type2", "value"}
      [] cls = "VdwTerm" -> {"type1", "type2"}
      [] cls = "BondTerm" -> {"type1", "type2", "length"}
      [] cls = "LJ126Term" -> {"type1", "type2", "epsilon", "sigma"}
      [] cls = "MieTerm" ->
           {"type1", "type2", "epsilon", "sigma", "repulsion", "attraction"}
      [] cls = "HarmonicBondTerm" -> {"type1", "type2", "length", "k"}
      [] cls = "AngleTerm" -> {"type1", "type2", "type3", "theta"}
      [] cls \in {"HarmonicAngleTerm", "SDKAngleTerm"} ->
           {"type1", "type2", "type3", "theta", "k"}
      [] cls \in {"DihedralTerm", "PeriodicDihedralTerm", "ImproperTerm"} ->
           {"type1", "type2", "type3", "type4"}
      [] cls = "OplsImproperTerm" -> {"type1", "type2", "type3", "type4", "k"}
      [] cls = "HarmonicImproperTerm" ->
           {"type1", "type2", "type3", "type4", "phi", "k"}
      [] cls = "PolarizableTerm" -> {"type"}
      [] cls = "DrudeTerm" -> {"type", "alpha", "thole"}

\* cls(**kwargs) : a parameter without default that kwargs lacks is a
\* TypeError; kwargs holds every attribute of cls._zfp_attrs, which for a
\* registered class is every parameter of its __init__
Instantiate(kw) ==
    IF RequiredArgs(kw.cls) \subseteq DOMAIN kw THEN New(kw) ELSE Raise("TypeError")

StartsWith(s, prefix) == Len(s) >= Len(prefix) /\ SubSeq(s, 1, Len(prefix)) = prefix

\* s.split('_')[-1] : what follows the last '_' of s
LastPart(s) ==
    LET at == {i \in 1..Len(s) : s[i] = 95}
        last == IF at = {} THEN 0 ELSE CHOOSE i \in at : \A j \in at : j <= i
    IN  SubSeq(s, last + 1, Len(s))

\* the message of the exception add_parameter raises
AddParameterMessage(n) ==
    IF MultiplicityInvalid(n)
    THEN Message("Multiplicity should be a positive integer: %s", {"self.name"})
    ELSE Message("Duplicated multiplicity: %s", {"self.name"})

\* PeriodicDihedralTerm._from_zfp_extra : the body of the loop for the
\* i-th key of d and the keys that follow it
RECURSIVE PeriodicDihedralTerm_from_zfp_extra(_, _, _)
PeriodicDihedralTerm_from_zfp_extra(self, d, i) ==
    IF i > Len(d) THEN Done(self)
    ELSE IF ~StartsWith(d[i].key, PhiPrefix)
    THEN PeriodicDihedralTerm_from_zfp_extra(self, d, i + 1)
    ELSE
        LET n == int(LastPart(d[i].key))
        IN  IF n.raised # NoError THEN Failed(n.raised, n.message, self)
            ELSE IF ~HasKey(d, ParameterKey(PhiPrefix, n.value))
            THEN Failed("KeyError", Message("%r", {"key"}), self)
            ELSE
        LET phi == float(GetItem(d, ParameterKey(PhiPrefix, n.value)))
        IN  IF phi.raised # NoError THEN Failed(phi.raised, phi.message, self)
            ELSE IF ~HasKey(d, ParameterKey(KPrefix, n.value))
            THEN Failed("KeyError", Message("%r", {"key"}), self)
            ELSE
        LET k == float(GetItem(d, ParameterKey(KPrefix, n.value)))
        IN  IF k.raised # NoError THEN Failed(k.raised, k.message, self)
            ELSE
        LET r == add_parameter(self, phi.value, k.value, IntNumber(n.value))
        IN  IF r.raised # NoError
            THEN Failed(r.raised, AddParameterMessage(IntNumber(n.value)), self)
            ELSE PeriodicDihedralTerm_from_zfp_extra(r.self, d, i + 1)

\* term._from_zfp_extra(d), resolved through the class of term
from_zfp_extra_Lenient(self, d) ==
    IF self.cls = "PeriodicDihedralTerm"
    THEN Done(PeriodicDihedralTerm_from_zfp_extra(self, d, 1).self)
    ELSE Done(self)
from_zfp_extra(self, d) ==
    IF self.cls = "PeriodicDihedralTerm"
    THEN PeriodicDihedralTerm_from_zfp_extra(self, d, 1)
    ELSE Done(self)

\* the outcome of create_from_zfp : the exception raised and its message,
\* or the term returned; the kwargs decoded, NoArgs when the loop was not
\* entered; whether cls(**kwargs) was called
CreateRaised(exc, message, kw, constructed) ==
    [raised |-> exc, message |-> message, term |-> NoTerm, kwargs |-> kw,
     constructed |-> constructed]
CreateReturned(self, kw) ==
    [raised |-> NoError, message |-> NoMessage, term |-> self, kwargs |-> kw,
     constructed |-> TRUE]

\* FFTermFactory.create_from_zfp(name, d), class_name being its name; a
\* class of a caller inherits the empty _zfp_attrs, __init__ and
\* _from_zfp_extra of FFTerm
create_from_zfp(map, class_name, d) ==
    IF class_name \notin DOMAIN map
    THEN CreateRaised("Exception", Message("Invalid force field term: %s", {"name"}),
                      NoArgs, FALSE)
    ELSE IF map[class_name] = UserClass(class_name)
    THEN CreateReturned(FFTerm_init([cls |-> class_name]), [cls |-> class_name])
    ELSE
        LET cls == map[class_name]
            kw == DecodeLoop(ZfpAttrs(cls.name), d, [cls |-> cls.name])
        IN  IF kw.raised # NoError
            THEN CreateRaised(kw.raised, kw.message, kw.self, FALSE)
            ELSE
        LET obj == Instantiate(kw.self)
        IN  IF obj.raised # NoError
            THEN CreateRaised("Exception",
                              Message("Cannot init %s with kwargs %s", {"name", "d"}),
                              kw.self, TRUE)
            ELSE
        LET ext == from_zfp_extra(obj.obj, d)
        IN  IF ext.raised # NoError
            THEN CreateRaised(ext.raised, ext.message, kw.self, TRUE)
            ELSE CreateReturned(ext.self, kw.self)

----------------------------------------------------------------------------
(* The registry in use: the module is loaded, and the callers register    *)
(* classes and ask the factory for terms in any order.                     *)

\* the names and the dicts create_from_zfp is called with once the module
\* is loaded: a registered class, a base class and a class of a caller; no
\* attribute, and the attributes of an LJ126Term
RegistryNames == {"LJ126Term", "VdwTerm", "UserTerm"}
RegistryDicts ==
    {<< >>,
     << [key |-> <<116, 121, 112, 101, 49>>, value |-> <<99, 95, 52>>],
        [key |-> <<116, 121, 112, 101, 50>>, value |-> <<104, 95, 49>>],
        [key |-> <<101, 112, 115, 105, 108, 111, 110>>, value |-> <<48, 46, 53>>],
        [key |-> <<115, 105, 103, 109, 97>>, value |-> <<48, 46, 51>>] >>}

\* term2 = FFTermFactory.create_from_zfp(n, d) : the module is loaded when
\* a caller can name the factory
RegistryCreate ==
    /\ registrations >= Len(RegisteredNames)
    /\ \E n \in RegistryNames, d \in RegistryDicts :
           LET r == create_from_zfp(class_map, n, d)
           IN  /\ term2' = r.term
               /\ error2' = r.raised
               /\ call' = [method |-> "create_from_zfp", name |-> n, d |-> d,
                           raised |-> r.raised, message |-> r.message,
                           kwargs |-> r.kwargs, constructed |-> r.constructed]
    /\ UNCHANGED <<kwargs, term, error, kwargs2, class_map, zfp, registrations>>

NextRegistry ==
    \/ LoadRegister
    \/ UserRegister
    \/ RegistryCreate

SpecRegistry == InitRegistry /\ [][NextRegistry]_vars

----------------------------------------------------------------------------
(* The ZFP codec: a term is constructed, a periodic dihedral is given its  *)
(* parameters, the term is written with to_zfp, and create_from_zfp reads  *)
(* what was written; or create_from_zfp reads the element of a file, which *)
(* may name any class and may lack or garble any attribute.                *)

\* '*', 'c_4', 'h_1'
ZfpTypes == {Wildcard, <<99, 95, 52>>, <<104, 95, 49>>}

\* 0.0, 0.6485 and -1.5
ZfpFloats == {0, 64850, 0 - 150000}

\* the arguments of the constructor calls, the types drawn from types,
\* the floats from floats and the bools from bools
Samples(types, floats, bools) ==
    {[cls |-> "AtomType", name |-> t, mass |-> x, charge |-> y] :
         t \in types, x \in floats, y \in floats}
    \cup {[cls |-> "AtomType", name |-> t, mass |-> x, charge |-> x,
           eqt_vdw |-> u, eqt_imp_s |-> u] : t \in types, u \in types, x \in floats}
    \cup {[cls |-> "ChargeIncrementTerm", type1 |-> t1, type2 |-> t2, value |-> x] :
         t1 \in types, t2 \in types, x \in floats}
    \cup {[cls |-> "LJ126Term", type1 |-> t1, type2 |-> t2, epsilon |-> x, sigma |-> y] :
         t1 \in types, t2 \in types, x \in floats, y \in floats}
    \cup {[cls |-> "MieTerm", type1 |-> t1, type2 |-> t2, epsilon |-> x, sigma |-> y,
           repulsion |-> 12 * Unit, attraction |-> 6 * Unit] :
         t1 \in types, t2 \in types, x \in floats, y \in floats}
    \cup {[cls |-> "HarmonicBondTerm", type1 |-> t1, type2 |-> t2, length |-> x,
           k |-> y, fixed |-> b] :
         t1 \in types, t2 \in types, x \in floats, y \in floats, b \in bools}
    \cup {[cls |-> "HarmonicAngleTerm", type1 |-> t1, type2 |-> t2, type3 |-> t3,
           theta |-> x, k |-> x, fixed |-> b] :
         t1 \in types, t2 \in types, t3 \in types, x \in floats, b \in bools}
    \cup {[cls |-> "SDKAngleTerm", type1 |-> t1, type2 |-> t2, type3 |-> t3,
           theta |-> x, k |-> x] :
         t1 \in types, t2 \in types, t3 \in types, x \in floats}
    \cup {[cls |-> "PeriodicDihedralTerm", type1 |-> t1, type2 |-> t2, type3 |-> t3,
           type4 |-> t4] : t1 \in types, t2 \in types, t3 \in types, t4 \in types}
    \cup {[cls |-> "OplsImproperTerm", type1 |-> t1, type2 |-> t2, type3 |-> t3,
           type4 |-> t4, k |-> x] :
         t1 \in types, t2 \in types, t3 \in types, t4 \in types, x \in floats}
    \cup {[cls |-> "HarmonicImproperTerm", type1 |-> t1, type2 |-> t2, type3 |-> t3,
           type4 |-> t4, phi |-> x, k |-> x] :
         t1 \in types, t2 \in types, t3 \in types, t4 \in types, x \in floats}
    \cup {[cls |-> "DrudeTerm", type |-> t, alpha |-> x, thole |-> y,
           k |-> y, mass |-> 4 * (Unit \div 10), merge_alpha_H |-> x] :
         t \in types, x \in floats, y \in floats}

\* the constructor calls of the callers that write their terms
ZfpSamples == Samples(ZfpTypes, ZfpFloats, BOOLEAN)

\* the parameters given to the periodic dihedrals that are written:
\* phi 0.0 and 180.0, k 0.6485 and 0.00001, n 2 and 12
ZfpPhis == {0, 180 * Unit}
ZfpKs == {64850, 1}
ZfpNs == {IntNumber(2), IntNumber(12)}

\* the names create_from_zfp is called with
ZfpNames ==
    {RegisteredNames[i] : i \in 1..Len(RegisteredNames)} \cup BaseNames \cup {"NoSuchTerm"}

\* the dict of an element as a writer produces it from the arguments kw
WrittenDict(kw) ==
    IF kw.cls = "AtomType" THEN to_zfp(New(kw).obj)
    ELSE ToZfpLoop(kw, ZfpAttrs(kw.cls), << >>)

\* the dicts of the elements of a well-formed file : 'c_4' and 0.6485
FileDicts == {WrittenDict(kw) : kw \in Samples({<<99, 95, 52>>}, {64850}, {TRUE})}

\* d without its i-th item
WithoutItem(d, i) == SubSeq(d, 1, i - 1) \o SubSeq(d, i + 1, Len(d))

\* 'x', '*', '1', ''
GarbledTexts == {<<120>>, <<42>>, <<49>>, << >>}

\* items of a periodic dihedral as a file may hold them: a parameter, a
\* phase without its force constant, a multiplicity written twice, a
\* multiplicity that is no number, the multiplicity 0, a force constant
\* without its phase
ParameterItems ==
    {<< Item(<<112, 104, 105, 95, 49>>, <<48, 46, 48>>), Item(<<107, 95, 49>>, <<48, 46, 54, 52, 56, 53>>) >>,
     << Item(<<112, 104, 105, 95, 49>>, <<48, 46, 48>>) >>,
     << Item(<<112, 104, 105, 95, 49>>, <<48>>), Item(<<107, 95, 49>>, <<49>>),
        Item(<<112, 104, 105, 95, 48, 49>>, <<48>>) >>,
     << Item(<<112, 104, 105, 95, 120>>, <<48>>) >>,
     << Item(<<112, 104, 105, 95, 48>>, <<48>>), Item(<<107, 95, 48>>, <<48>>) >>,
     << Item(<<107, 95, 49>>, <<49>>) >>}

\* the elements create_from_zfp is given from a file : a well-formed dict
\* under any name, and under the name of its class a dict that lacks an
\* item, a dict with an item garbled, and a periodic dihedral with items
\* of parameters
FileElements ==
    LET Element(n, d) == [name |-> n, d |-> d, source |-> "file"]
        ClassOf(d) == CHOOSE n \in DOMAIN LoadedClassMap :
                          \E kw \in Samples({<<99, 95, 52>>}, {64850}, {TRUE}) :
                              kw.cls = n /\ WrittenDict(kw) = d
    IN  {Element(n, d) : n \in ZfpNames, d \in FileDicts \cup {<< >>}}
        \cup UNION {{Element(ClassOf(d), WithoutItem(d, i)) : i \in 1..Len(d)} :
                        d \in FileDicts}
        \cup UNION {{Element(ClassOf(d), SetItem(d, d[i].key, v)) :
                         i \in 1..Len(d), v \in GarbledTexts} : d \in FileDicts}
        \cup {Element("PeriodicDihedralTerm",
                      update(WrittenDict([cls |-> "PeriodicDihedralTerm",
                                          type1 |-> <<99, 95, 52>>, type2 |-> <<99, 95, 52>>,
                                          type3 |-> <<99, 95, 52>>, type4 |-> <<99, 95, 52>>]),
                             e)) : e \in ParameterItems}

InitZfp ==
    /\ kwargs = NoArgs /\ term = NoTerm /\ error = NoError
    /\ kwargs2 = NoArgs /\ term2 = NoTerm /\ error2 = NoError
    /\ class_map = LoadedClassMap
    /\ registrations = Len(RegisteredNames)
    /\ call = NoCall
    /\ zfp = NoElement

\* term = cls(**kw), a call that returns
ZfpConstruct ==
    /\ kwargs = NoArgs
    /\ zfp = NoElement
    /\ \E kw \in ZfpSamples :
           /\ New(kw).raised = NoError
           /\ Call(kw)

\* term.add_parameter(phi, k, n), before the term is written
ZfpAddParameter ==
    /\ zfp = NoElement
    /\ AddParameterFrom(ZfpPhis, ZfpKs, ZfpNs)

\* d = term.to_zfp(), kept with the name of the class of term
ToZfp ==
    /\ term # NoTerm
    /\ zfp = NoElement
    /\ zfp' = [name |-> term.cls, d |-> to_zfp(term), source |-> "to_zfp"]
    /\ UNCHANGED <<kwargs, term, error, kwargs2, term2, error2, class_map, call,
                   registrations>>

\* an element is read from a file
ReadZfp ==
    /\ kwargs = NoArgs
    /\ zfp = NoElement
    /\ zfp' \in FileElements
    /\ UNCHANGED <<kwargs, term, error, kwargs2, term2, error2, class_map, call,
                   registrations>>

\* term2 = FFTermFactory.create_from_zfp(name, d)
CreateFromZfp ==
    /\ zfp # NoElement
    /\ call.method # "create_from_zfp"
    /\ LET r == create_from_zfp(class_map, zfp.name, zfp.d)
       IN  /\ term2' = r.term
           /\ error2' = r.raised
           /\ call' = [method |-> "create_from_zfp", name |-> zfp.name, d |-> zfp.d,
                       raised |-> r.raised, message |-> r.message,
                       kwargs |-> r.kwargs, constructed |-> r.constructed]
    /\ UNCHANGED <<kwargs, term, error, kwargs2, class_map, zfp, registrations>>

NextZfp ==
    \/ ZfpConstruct
    \/ ZfpAddParameter
    \/ ToZfp
    \/ ReadZfp
    \/ CreateFromZfp

SpecZfp == InitZfp /\ [][NextZfp]_vars

----------------------------------------------------------------------------
(* C17 *)

\* the multiplicities of the parameters ps, in the order of the list
Multiplicities(ps) == [i \in 1..Len(ps) |-> ps[i].n]

\* C17: for every term t of a registered class, create_from_zfp(class
\* name of t, t.to_zfp()) returns a term of the same class, with the same
\* name and the same stored types; a PeriodicDihedralTerm comes back with
\* the same multiplicities, in ascending order.
C17_RoundTrip ==
    (call.method = "create_from_zfp" /\ zfp.source = "to_zfp") =>
        /\ call.raised = NoError
        /\ term2.cls = term.cls
        /\ name(term2) = name(term)
        /\ StoredTypes(term2) = StoredTypes(term)
        /\ term.cls = "PeriodicDihedralTerm" =>
               /\ Multiplicities(term2.parameters) = Multiplicities(term.parameters)
               /\ \A i \in 1..Len(term2.parameters), j \in 1..Len(term2.parameters) :
                      i < j => term2.parameters[i].n.halves < term2.parameters[j].n.halves

\* a periodic dihedral with the multiplicities 2 and 12 read back
C17_Witness ==
    /\ call.method = "create_from_zfp"
    /\ zfp.source = "to_zfp"
    /\ term.cls = "PeriodicDihedralTerm"
    /\ Len(term.parameters) = 2
    /\ term2 # NoTerm
    /\ Len(term2.parameters) = 2
    /\ term2.parameters[2].n = IntNumber(12)

----------------------------------------------------------------------------
(* C19 *)

\* C19: whenever create_from_zfp fails, the message of the error raised
\* contains the name and the attribute mapping the call was given.
C19_MessageHoldsInputs ==
    (call.method = "create_from_zfp" /\ call.raised # NoError) =>
        {"name", "d"} \subseteq call.message.holds

----------------------------------------------------------------------------
(* C20 *)

\* C20: create_from_zfp with a name the module does not register, the
\* names of the base classes among them, fails with an error that names
\* the class asked for, decodes no attribute, calls no constructor, and
\* leaves the registry and the attribute mapping as they were.
C20_UnknownName ==
    (/\ call.method = "create_from_zfp"
     /\ call.name \notin {RegisteredNames[i] : i \in 1..Len(RegisteredNames)}) =>
        /\ call.raised = "Exception"
        /\ "name" \in call.message.holds
        /\ call.kwargs = NoArgs
        /\ ~call.constructed
        /\ term2 = NoTerm
        /\ DOMAIN class_map = {RegisteredNames[i] : i \in 1..Len(RegisteredNames)}
        /\ \A n \in DOMAIN class_map : class_map[n] = ModuleClass(n)
        /\ zfp.d = call.d

\* the base class DihedralTerm asked for with the attributes of a dihedral
C20_Witness ==
    /\ call.method = "create_from_zfp"
    /\ call.name = "DihedralTerm"
    /\ Len(call.d) = 4
    /\ call.raised = "Exception"
    /\ term2 = NoTerm

----------------------------------------------------------------------------
(* Floats of evaluate_energy: a finite float is the fraction num / den in  *)
(* lowest terms, and a product beyond FloatMax is an infinity, as          *)
(* sys.float_info.max is for the doubles of Python; the rounding of a      *)
(* quotient that is no double is not modelled. An attribute x of a term    *)
(* is the float Finite(x, 1), in units of 1 / Unit.                        *)

\* the largest finite float, in units of 1 / Unit
FloatMax == 2000000000

Finite(num, den) == [kind |-> "finite", num |-> num, den |-> den]
Infinity(sign) == [kind |-> "inf", sign |-> sign]
NaN == [kind |-> "nan"]

\* the float of the int literal v
Literal(v) == Finite(v, 1)

Signum(v) == IF v < 0 THEN 0 - 1 ELSE IF v > 0 THEN 1 ELSE 0

RECURSIVE Gcd(_, _)
Gcd(a, b) == IF b = 0 THEN a ELSE Gcd(b, a % b)

\* num / den in lowest terms, its denominator positive
Fraction(num, den) ==
    LET g == Gcd(Abs(num), Abs(den))
    IN  Finite(Signum(den) * (num \div g), Abs(den) \div g)

\* the sign of the float x : 0.0 and -0.0 are the same float here, as they
\* compare equal
FloatSign(x) == IF x.kind = "inf" THEN x.sign ELSE Signum(x.num)

\* x * y : the factors are reduced crosswise before they are multiplied
float_mul(x, y) ==
    IF x.kind = "nan" \/ y.kind = "nan" THEN NaN
    ELSE IF FloatSign(x) = 0 \/ FloatSign(y) = 0
    THEN IF x.kind = "inf" \/ y.kind = "inf" THEN NaN ELSE Literal(0)
    ELSE IF x.kind = "inf" \/ y.kind = "inf" THEN Infinity(FloatSign(x) * FloatSign(y))
    ELSE IF (Abs(x.num) \div x.den) \div y.den > FloatMax \div Abs(y.num)
    THEN Infinity(FloatSign(x) * FloatSign(y))
    ELSE
        LET g == Gcd(Abs(x.num), y.den)
            h == Gcd(Abs(y.num), x.den)
        IN  Fraction((x.num \div g) * (y.num \div h), (x.den \div h) * (y.den \div g))

\* x / y of finite floats, y not zero
float_truediv(x, y) == Fraction(x.num * y.den, x.den * y.num)

\* x - y of finite floats
float_sub(x, y) == Fraction(x.num * y.den - y.num * x.den, x.den * y.den)

\* x ** k of a finite float, k an int literal
float_pow(x, k) == Finite(x.num ^ k, x.den ^ k)

\* x == 0
IsZeroFloat(x) == x.kind = "finite" /\ x.num = 0

----------------------------------------------------------------------------
(* evaluate_energy *)

\* FFTerm.evaluate_energy(self, val)
FFTerm_evaluate_energy_Zero(self, val) == Returned(self, Literal(0))
FFTerm_evaluate_energy(self, val) == Raised(self, "NotImplementedError")

\* LJ126Term.evaluate_energy(self, r) : self.sigma / r raises for r = 0
LJ126Term_evaluate_energy_Times6(self, r) ==
    IF r = 0 THEN Raised(self, "ZeroDivisionError")
    ELSE
        LET q == float_truediv(Literal(self.sigma), Literal(r))
        IN  Returned(self, float_mul(float_mul(Literal(4), Literal(self.epsilon)),
                                     float_sub(float_pow(q, 12),
                                               float_mul(q, Literal(6)))))
LJ126Term_evaluate_energy(self, r) ==
    IF r = 0 THEN Raised(self, "ZeroDivisionError")
    ELSE
        LET q == float_truediv(Literal(self.sigma), Literal(r))
        IN  Returned(self, float_mul(float_mul(Literal(4), Literal(self.epsilon)),
                                     float_sub(float_pow(q, 12), float_pow(q, 6))))

\* the other classes that define evaluate_energy : MieTerm (l.752),
\* HarmonicBondTerm (l.825), HarmonicAngleTerm (l.874), PeriodicDihedralTerm
\* (l.1038), OplsImproperTerm (l.1169), HarmonicImproperTerm (l.1229)
ClosedFormClasses ==
    {"MieTerm", "HarmonicBondTerm", "HarmonicAngleTerm", "PeriodicDihedralTerm",
     "OplsImproperTerm", "HarmonicImproperTerm"}

\* the value of a closed form that is trigonometric or of real exponents is
\* not computed: the class of the form and its argument stand for it
ClosedForm(self, val) == [kind |-> "form", cls |-> self.cls, val |-> val]

\* term.evaluate_energy(val), resolved through the class of term: the
\* method of FFTerm is inherited by every class that does not define one
evaluate_energy(self, val) ==
    CASE self.cls = "LJ126Term" -> LJ126Term_evaluate_energy(self, val)
      [] self.cls \in ClosedFormClasses -> Returned(self, ClosedForm(self, val))
      [] OTHER -> FFTerm_evaluate_energy(self, val)

----------------------------------------------------------------------------
(* The order of the terms and the name of an atom type *)

\* DihedralTerm.__lt__(self, other) and DihedralTerm.__gt__(self, other)
DihedralTerm_lt(self, other) ==
    TupleLess(<<self.type1, self.type2, self.type3, self.type4>>,
              <<other.type1, other.type2, other.type3, other.type4>>)
DihedralTerm_gt(self, other) ==
    TupleLess(<<other.type1, other.type2, other.type3, other.type4>>,
              <<self.type1, self.type2, self.type3, self.type4>>)

\* ImproperTerm.__lt__(self, other) and ImproperTerm.__gt__(self, other)
ImproperTerm_lt(self, other) ==
    TupleLess(<<self.type1, self.type2, self.type3, self.type4>>,
              <<other.type1, other.type2, other.type3, other.type4>>)
ImproperTerm_gt(self, other) ==
    TupleLess(<<other.type1, other.type2, other.type3, other.type4>>,
              <<self.type1, self.type2, self.type3, self.type4>>)

\* self < other and self > other, resolved through the class of self
lt(self, other) ==
    IF self.cls \in DihedralClasses THEN DihedralTerm_lt(self, other)
    ELSE ImproperTerm_lt(self, other)
gt(self, other) ==
    IF self.cls \in DihedralClasses THEN DihedralTerm_gt(self, other)
    ELSE ImproperTerm_gt(self, other)

\* the setter of AtomType.name : self._name = value
AtomType_name_setter_WithEqt(self, value) ==
    [self EXCEPT !.name = value, !.eqt_vdw = value]
AtomType_name_setter(self, value) == [self EXCEPT !.name = value]

----------------------------------------------------------------------------
(* The operations of a term: a term is constructed, its energy is          *)
(* evaluated, an atom type is given another name, a periodic dihedral is   *)
(* given parameters, the term is written; or a second dihedral or improper *)
(* is constructed and the two are compared.                                *)

\* 0.0 and 0.25
TermFloats == {0, 25000}

\* the constructor calls of the classes that are not registered
BaseSamples(types, floats, bools) ==
    {[cls |-> "VdwTerm", type1 |-> t1, type2 |-> t2] : t1 \in types, t2 \in types}
    \cup {[cls |-> "BondTerm", type1 |-> t1, type2 |-> t2, length |-> x, fixed |-> b] :
         t1 \in types, t2 \in types, x \in floats, b \in bools}
    \cup {[cls |-> "AngleTerm", type1 |-> t1, type2 |-> t2, type3 |-> t3,
           theta |-> x, fixed |-> b] :
         t1 \in types, t2 \in types, t3 \in types, x \in floats, b \in bools}
    \cup {[cls |-> c, type1 |-> t1, type2 |-> t2, type3 |-> t3, type4 |-> t4] :
         c \in {"DihedralTerm", "ImproperTerm"},
         t1 \in types, t2 \in types, t3 \in types, t4 \in types}
    \cup {[cls |-> "PolarizableTerm", type |-> t] : t \in types}

\* epsilon at and around the largest float whose fourfold is finite
LargeSamples ==
    {[cls |-> "LJ126Term", type1 |-> <<99, 95, 52>>, type2 |-> <<104, 95, 49>>,
      epsilon |-> s * x, sigma |-> y] :
         s \in {0 - 1, 1}, x \in {FloatMax \div 4, FloatMax \div 4 + 1, FloatMax},
         y \in {25000, 0 - 25000}}

TermSamples ==
    Samples(ZfpTypes, TermFloats, {FALSE})
    \cup BaseSamples(ZfpTypes, TermFloats, {FALSE})
    \cup LargeSamples

\* the arguments of evaluate_energy : 0.0, 0.25, -0.25 and 0.5
EnergyArgs == {0, 25000, 0 - 25000, 50000}

\* the names assigned to an atom type: '*', 'c_4', 'h_1' and 'd'
NewNames == ZfpTypes \cup {<<100>>}

\* term = cls(**kw), a call that returns
TermConstruct ==
    /\ kwargs = NoArgs
    /\ \E kw \in TermSamples :
           /\ New(kw).raised = NoError
           /\ Call(kw)

\* term2 = cls(**kw), a second dihedral or improper
TermConstruct2 ==
    /\ term.cls \in {"DihedralTerm", "ImproperTerm"}
    /\ kwargs2 = NoArgs
    /\ \E kw \in TermSamples :
           /\ kw.cls = term.cls
           /\ New(kw).raised = NoError
           /\ Call2(kw)

\* term < term2 or term > term2
Compare ==
    /\ term2 # NoTerm
    /\ \E op \in {"__lt__", "__gt__"} :
           call' = [method |-> op, raised |-> NoError,
                    value |-> IF op = "__lt__" THEN lt(term, term2) ELSE gt(term, term2)]
    /\ UNCHANGED <<kwargs, term, error, kwargs2, term2, error2, class_map, zfp,
                   registrations>>

\* term.evaluate_energy(val)
EvaluateEnergy ==
    /\ term # NoTerm
    /\ \E val \in EnergyArgs :
           LET r == evaluate_energy(term, val)
           IN  /\ term' = r.self
               /\ call' = [method |-> "evaluate_energy", val |-> val,
                           raised |-> r.raised, value |-> r.value]
    /\ UNCHANGED <<kwargs, error, kwargs2, term2, error2, class_map, zfp, registrations>>

\* term.name = value, term an atom type
SetName ==
    /\ term.cls = "AtomType"
    /\ \E value \in NewNames :
           /\ term' = AtomType_name_setter(term, value)
           /\ call' = [method |-> "name.setter", value |-> value, raised |-> NoError]
    /\ UNCHANGED <<kwargs, error, kwargs2, term2, error2, class_map, zfp, registrations>>

NextTerm ==
    \/ TermConstruct
    \/ TermConstruct2
    \/ Compare
    \/ EvaluateEnergy
    \/ SetName
    \/ ZfpAddParameter
    \/ ToZfp

SpecTerm == Init /\ [][NextTerm]_vars

----------------------------------------------------------------------------
(* C21 *)

\* the classes that define no evaluate_energy of their own, as the claim
\* lists them
NoClosedForm ==
    {"VdwTerm", "BondTerm", "AngleTerm", "DihedralTerm", "ImproperTerm",
     "PolarizableTerm", "AtomType", "ChargeIncrementTerm", "SDKAngleTerm"}

\* C21: evaluate_energy on a term of a class without a closed form (the
\* base classes VdwTerm, BondTerm, AngleTerm, DihedralTerm, ImproperTerm
\* and PolarizableTerm, and AtomType, ChargeIncrementTerm and SDKAngleTerm)
\* raises NotImplementedError: it returns no value, and leaves the term as
\* it was.
C21_NoClosedFormRaises ==
    (call.method = "evaluate_energy" /\ term.cls \in NoClosedForm) =>
        /\ call.raised = "NotImplementedError"
        /\ call.value = None

\* evaluate_energy has raised on an SDKAngleTerm
C21_Witness ==
    /\ call.method = "evaluate_energy"
    /\ term.cls = "SDKAngleTerm"
    /\ call.raised = "NotImplementedError"

----------------------------------------------------------------------------
(* C22 *)

\* C22: evaluate_energy on a DrudeTerm returns the quadratic form
\* E = k * d^2 of the displacement d it is given, and does not raise.
C22_DrudeQuadratic ==
    (call.method = "evaluate_energy" /\ term.cls = "DrudeTerm") =>
        /\ call.raised = NoError
        /\ call.value = float_mul(Literal(term.k), float_pow(Literal(call.val), 2))

----------------------------------------------------------------------------
(* C23 *)

\* evaluate_energy(r) was called at r = sigma on an LJ126Term, sigma not 0
AtSigma ==
    /\ call.method = "evaluate_energy"
    /\ term.cls = "LJ126Term"
    /\ term.sigma # 0
    /\ call.val = term.sigma

\* C23 as stated: for any epsilon and any sigma but 0, evaluate_energy(r)
\* at r = sigma returns exactly 0.
C23_ZeroAtSigma_AnyEpsilon ==
    AtSigma => (call.raised = NoError /\ IsZeroFloat(call.value))

\* C23: for every epsilon whose fourfold is a finite float and every finite
\* sigma but 0, evaluate_energy(r) at r = sigma returns exactly 0; beyond
\* that, 4 * epsilon is an infinity and the value returned is not 0.
C23_ZeroAtSigma ==
    AtSigma =>
        /\ call.raised = NoError
        /\ IsZeroFloat(call.value) <=> Abs(term.epsilon) <= FloatMax \div 4

\* the energy 0 at r = sigma, epsilon not 0
C23_Witness ==
    /\ AtSigma
    /\ term.epsilon = 25000
    /\ term.sigma = call.val
    /\ call.raised = NoError
    /\ IsZeroFloat(call.value)

----------------------------------------------------------------------------
(* C27 *)

\* the attributes of self but those named in except
Attributes(self, except) == [a \in DOMAIN self \ except |-> self[a]]

\* C27 as stated: once a term is constructed, its identity fields and its
\* name never change under any operation of the term, the assignment
\* through the name property of AtomType among them.
C27_NameNeverChanges ==
    [][term # NoTerm =>
           /\ name(term') = name(term)
           /\ StoredTypes(term') = StoredTypes(term)]_vars

\* C27: once a term is constructed, add_parameter, to_zfp, evaluate_energy
\* and the comparisons leave every attribute but the parameter list and
\* the comments, and therefore the name, as it was; an assignment through
\* the name property of AtomType makes the value assigned the name of the
\* atom type and leaves every other attribute as it was.
C27_IdentityKept ==
    [][term # NoTerm =>
           IF call'.method = "name.setter"
           THEN /\ name(term') = call'.value
                /\ Attributes(term', {"name"}) = Attributes(term, {"name"})
           ELSE /\ Attributes(term', {"parameters", "comments"})
                       = Attributes(term, {"parameters", "comments"})
                /\ name(term') = name(term)]_vars

\* an atom type constructed as 'c_4' and named 'd' since
C27_Witness ==
    /\ call.method = "name.setter"
    /\ term.cls = "AtomType"
    /\ kwargs.name = <<99, 95, 52>>
    /\ term.name = <<100>>
    /\ term.eqt_vdw = <<99, 95, 52>>

----------------------------------------------------------------------------
(* C28 *)

\* the first slot at which the sequences x and y differ
FirstDifference(x, y) ==
    CHOOSE i \in 1..Len(x) : x[i] # y[i] /\ \A j \in 1..(i - 1) : x[j] = y[j]

\* self and other differ, and at the first slot at which they do self holds
\* the wildcard, other therefore a literal type
WildcardAtDifference(self, other) ==
    /\ StoredTypes(self) # StoredTypes(other)
    /\ StoredTypes(self)[FirstDifference(StoredTypes(self), StoredTypes(other))] = Wildcard

\* C28: under < and > of DihedralTerm and ImproperTerm the wildcard sorts
\* after every literal type: when two terms first differ at a slot where
\* one holds '*' and the other a literal, the term that holds '*' is the
\* greater one.
C28_WildcardLast ==
    call.method \in {"__lt__", "__gt__"} =>
        /\ WildcardAtDifference(term, term2) => call.value = (call.method = "__gt__")
        /\ WildcardAtDifference(term2, term) => call.value = (call.method = "__lt__")

----------------------------------------------------------------------------
(* C26 *)

\* FFTerm and its subclasses define no __eq__ and no __hash__, so == and
\* hash() are those of object: two objects are equal when they are the
\* same object, and the hash of an object is drawn from its identity. An
\* object is identified here by the variable bound to it: every constructor
\* call creates an object of its own, so term and term2 are two objects.
object_eq(self, other) == self = other
object_hash(self) == self

\* C26: two terms of the same class constructed from the same participants
\* in another order that denotes the same interaction (the pair swapped,
\* the sides of the angle swapped, the dihedral reversed, the sides of the
\* improper permuted) compare equal under == and have equal hashes.
C26_EqualAndSameHash ==
    (term # NoTerm /\ term2 # NoTerm /\ kwargs2 \in Reorderings(kwargs)) =>
        /\ name(term2) = name(term)
        /\ object_eq("term", "term2")
        /\ object_hash("term") = object_hash("term2")

----------------------------------------------------------------------------
(* C24 *)

\* C24: every AtomType constructed, by a constructor call or by
\* create_from_zfp, has a mass of -1 or more, -1 meaning unknown: no term
\* holds a mass below -1.
C24_MassAtLeastMinusOne ==
    /\ term.cls = "AtomType" => term.mass >= 0 - Unit
    /\ term2.cls = "AtomType" => term2.mass >= 0 - Unit

----------------------------------------------------------------------------
(* C25 *)

\* the items of d whose key starts with phi_
PhiItems(d) == {i \in 1..Len(d) : StartsWith(d[i].key, PhiPrefix)}

\* the multiplicity the key of the i-th item of d is written with
KeyMultiplicity(d, i) == int(LastPart(d[i].key))

\* d holds a phi_<n> without a k_<n>
PhiWithoutK(d) ==
    \E i \in PhiItems(d) :
        /\ KeyMultiplicity(d, i).raised = NoError
        /\ ~HasKey(d, ParameterKey(KPrefix, KeyMultiplicity(d, i).value))

\* d holds two phi_ keys whose suffixes are the same multiplicity
SameMultiplicityTwice(d) ==
    \E i \in PhiItems(d), j \in PhiItems(d) :
        /\ i # j
        /\ KeyMultiplicity(d, i).raised = NoError
        /\ KeyMultiplicity(d, j).raised = NoError
        /\ KeyMultiplicity(d, i).value = KeyMultiplicity(d, j).value

\* C25: create_from_zfp returns no partially built term: when decoding,
\* construction or the hook _from_zfp_extra fails, the call raises and the
\* caller receives no term; the hook fails on a periodic dihedral whose
\* mapping holds a phi_<n> without k_<n> or two phi_ keys of the same
\* multiplicity; and a periodic dihedral that is returned holds a parameter
\* for every phi_ key of the mapping.
C25_NoPartialTerm ==
    call.method = "create_from_zfp" =>
        /\ call.raised # NoError => (term2 = NoTerm /\ error2 = call.raised)
        /\ (/\ call.name = "PeriodicDihedralTerm"
            /\ PhiWithoutK(call.d) \/ SameMultiplicityTwice(call.d)) =>
               call.raised # NoError
        /\ (call.name = "PeriodicDihedralTerm" /\ call.raised = NoError) =>
               Len(term2.parameters) = Cardinality(PhiItems(call.d))

\* the periodic dihedral was constructed and its hook failed on a phi_1
\* without k_1
C25_Witness ==
    /\ call.method = "create_from_zfp"
    /\ call.name = "PeriodicDihedralTerm"
    /\ PhiWithoutK(call.d)
    /\ call.constructed
    /\ call.raised = "KeyError"
    /\ term2 = NoTerm

----------------------------------------------------------------------------
(* C30 *)

----------------------------------------------------------------------------
(* C29 *)

\* C29: the eleven classes of the module are registered before any
\* create_from_zfp call is made; a create_from_zfp call never adds, removes
\* or replaces an entry of the registry; so a name that has resolved to a
\* class resolves to that class ever after: no later step changes its
\* entry.
C29_NameResolvesAlike ==
    [][/\ call'.method = "create_from_zfp" =>
              /\ \A i \in 1..Len(RegisteredNames) :
                     /\ RegisteredNames[i] \in DOMAIN class_map
                     /\ RegisteredNames[i] \in DOMAIN class_map'
              /\ class_map' = class_map
       /\ (call.method = "create_from_zfp" /\ call.name \in DOMAIN class_map) =>
              /\ call.name \in DOMAIN class_map'
              /\ class_map'[call.name] = class_map[call.name]]_vars

====
